---- MODULE Spec2Model ----
(***************************************************************************)
(* MetaBoost payment-metadata store: the Redis-backed storage layer        *)
(* (lib/storage.ts) and the HTTP handlers that drive it                    *)
(* (api/v1/payment-metadata).  Every Redis command is one atomic step;     *)
(* the local computation between two awaits belongs to the step of the     *)
(* command that follows it, and the HTTP response belongs to the step of   *)
(* the last command of the handler.                                        *)
(***************************************************************************)
EXTENDS Integers, Sequences, FiniteSets, TLC

\* ---------------------------------------------------------------- bounds
\* number of requests the clients send in a run; all of them may be in
\* flight at the same time
MaxRequests == 3

\* the requests, numbered in their order of arrival; each is served by its
\* own invocation of a handler
Procs == 1..MaxRequests

\* a request draws at most two values of uuidv4()
MaxUuid == 2 * MaxRequests

\* ------------------------------------------------------------- JS values
\* A JavaScript value is a record tagged with its kind.
Undef == [t |-> "undefined"]
Null == [t |-> "null"]
NaN == [t |-> "NaN"]
Str(s) == [t |-> "string", v |-> s]
Num(n) == [t |-> "number", v |-> n]
Obj(f) == [t |-> "object", v |-> f]
Arr(s) == [t |-> "array", v |-> s]

\* typeof x
TypeOf(x) ==
  CASE x.t \in {"null", "array"} -> "object"
    [] x.t = "NaN" -> "number"
    [] OTHER -> x.t

\* the truthiness of x, as in `if (x)` and `a && b`
Truthy(x) ==
  CASE x.t \in {"undefined", "null", "NaN"} -> FALSE
    [] x.t = "string" -> x.v # ""
    [] x.t = "number" -> x.v # 0
    [] x.t = "boolean" -> x.v
    [] OTHER -> TRUE

\* o.k : undefined when o has no own property k
Get(o, k) == IF o.t = "object" /\ k \in DOMAIN o.v THEN o.v[k] ELSE Undef

\* the string a template literal `${x}` yields
ToStr(x) ==
  CASE x.t = "string" -> x.v
    [] x.t = "number" -> ToString(x.v)
    [] OTHER -> x.t

\* JSON.stringify(o) of an object literal: properties whose value is
\* undefined are left out of the text
JSONstringify(o) ==
  [json |-> Obj([k \in {j \in DOMAIN o.v : o.v[j].t # "undefined"} |-> o.v[k]])]

\* JSON.parse(text)
JSONparse(text) == text.json

\* ------------------------------------------------------------ lib/utils
PaymentType == {"bitcoin-lightning", "monero"}

\* the n-th value of uuidv4(); UUID(0) is a well-formed UUID that the
\* generator never hands out
UUID(n) == "uuid-" \o ToString(n)

\* /^[0-9a-f]{8}-...-[0-9a-f]{12}$/i.test(uuid)
isValidUUID(uuid) == uuid.t = "string" /\ uuid.v \in {UUID(n) : n \in 0..(MaxUuid + 1)}

isValidPaymentType(type) == type.t = "string" /\ type.v \in PaymentType

\* ---------------------------------------------------------------- lib/jpt
\* base64url texts the model knows how to decode: text -> decoded token
JPT1 == Obj([header |-> Obj([typ |-> Str("JPT"), alg |-> Str("lightning")]),
             payload |-> Obj([payment_hash |-> Str("abc")]),
             signature |-> Str("sig1")])
JPT2 == Obj([header |-> Obj([typ |-> Str("JPT"), alg |-> Str("monero")]),
             payload |-> Obj([tx_hash |-> Str("def")]),
             signature |-> Str("sig2")])
JPTBadTyp == Obj([header |-> Obj([typ |-> Str("JWT"), alg |-> Str("lightning")]),
                  payload |-> Obj([payment_hash |-> Str("abc")]),
                  signature |-> Str("sig1")])
EncodedJPT == "hdr1.pay1.sig1" :> JPT1

\* parseJPT(jptString): a text that does not split into three decodable
\* parts throws, which validateJPT catches
parseJPTThrows(jptString) == jptString \notin DOMAIN EncodedJPT
parseJPT(jptString) == EncodedJPT[jptString]

validateJPTHeader(header) ==
  /\ Truthy(header) /\ TypeOf(header) = "object"
  /\ Get(header, "typ") = Str("JPT")
  /\ Truthy(Get(header, "alg")) /\ TypeOf(Get(header, "alg")) = "string"

\* a field that is present (truthy) must have the given type
FieldOk(payload, k, ty) == Truthy(Get(payload, k)) => TypeOf(Get(payload, k)) = ty

validateLightningPayload(payload) ==
  /\ FieldOk(payload, "payment_hash", "string")
  /\ FieldOk(payload, "amt_paid_msat", "string")
  /\ FieldOk(payload, "resolve_time", "number")
  /\ FieldOk(payload, "iat", "number")
  /\ FieldOk(payload, "exp", "number")

validateMoneroPayload(payload) ==
  /\ FieldOk(payload, "tx_hash", "string")
  /\ FieldOk(payload, "amount", "string")
  /\ FieldOk(payload, "confirmations", "number")
  /\ FieldOk(payload, "iat", "number")
  /\ FieldOk(payload, "exp", "number")

\* header.alg.includes(word), over the algorithm names of the model
AlgIncludes(alg, word) == alg.v = word

validateJPTPayload(header, payload) ==
  /\ Truthy(payload) /\ TypeOf(payload) = "object"
  /\ IF AlgIncludes(Get(header, "alg"), "lightning") THEN validateLightningPayload(payload)
     ELSE IF AlgIncludes(Get(header, "alg"), "monero") THEN validateMoneroPayload(payload)
     ELSE TRUE

validateJPT(jpt) ==
  IF TypeOf(jpt) = "string" /\ parseJPTThrows(jpt.v) THEN FALSE
  ELSE LET decoded == IF TypeOf(jpt) = "string" THEN parseJPT(jpt.v) ELSE jpt
       IN /\ validateJPTHeader(Get(decoded, "header"))
          /\ validateJPTPayload(Get(decoded, "header"), Get(decoded, "payload"))
          /\ Truthy(Get(decoded, "signature"))
          /\ TypeOf(Get(decoded, "signature")) = "string"

\* ------------------------------------------------------------ lib/utils
\* the validators return the error message, or "" when the body is valid
validatePaymentMetadataNew(body) ==
  IF ~Truthy(Get(body, "jpt")) THEN "jpt is required"
  ELSE IF TypeOf(Get(body, "jpt")) \notin {"string", "object"} THEN "jpt must be a string or object"
  ELSE IF ~validateJPT(Get(body, "jpt")) THEN "Invalid JPT"
  ELSE IF ~Truthy(Get(body, "type")) \/ ~isValidPaymentType(Get(body, "type"))
    THEN "type is required and must be either \"bitcoin-lightning\" or \"monero\""
  ELSE ""

validatePaymentMetadataUpdate(body) ==
  IF ~Truthy(Get(body, "id")) \/ ~isValidUUID(Get(body, "id"))
    THEN "id is required and must be a valid UUID"
  ELSE IF ~Truthy(Get(body, "updateToken")) \/ ~isValidUUID(Get(body, "updateToken"))
    THEN "updateToken is required and must be a valid UUID"
  ELSE validatePaymentMetadataNew(body)

\* ---------------------------------------------------- lib/signature-utils
\* the validators of the metadata format return { valid: true } or
\* { valid: false, error }; isValidPaymentType is the one of lib/utils
Invalid(error) == [valid |-> FALSE, error |-> error]

\* the validator without the Array.isArray test
signature_utils_validatePaymentMetadataNew_arrays(body) ==
  IF ~Truthy(Get(body, "type")) \/ ~isValidPaymentType(Get(body, "type"))
    THEN Invalid("type is required and must be either \"bitcoin-lightning\" or \"monero\"")
  ELSE IF ~Truthy(Get(body, "metadata")) THEN Invalid("metadata is required")
  ELSE IF TypeOf(Get(body, "metadata")) # "object" \/ Get(body, "metadata") = Null
    THEN Invalid("metadata must be an object")
  ELSE IF Get(body, "signature") # Undef /\ TypeOf(Get(body, "signature")) # "string"
    THEN Invalid("signature must be a string")
  ELSE IF Get(body, "podcastGuid") # Undef /\ TypeOf(Get(body, "podcastGuid")) # "string"
    THEN Invalid("podcastGuid must be a string")
  ELSE IF Get(body, "rssItemGuid") # Undef /\ TypeOf(Get(body, "rssItemGuid")) # "string"
    THEN Invalid("rssItemGuid must be a string")
  ELSE [valid |-> TRUE]

\* validatePaymentMetadataNew of lib/signature-utils
signature_utils_validatePaymentMetadataNew(body) ==
  IF ~Truthy(Get(body, "type")) \/ ~isValidPaymentType(Get(body, "type"))
    THEN Invalid("type is required and must be either \"bitcoin-lightning\" or \"monero\"")
  ELSE IF ~Truthy(Get(body, "metadata")) THEN Invalid("metadata is required")
  ELSE IF \/ TypeOf(Get(body, "metadata")) # "object"
          \/ Get(body, "metadata") = Null
          \/ Get(body, "metadata").t = "array"
    THEN Invalid("metadata must be an object")
  ELSE IF Get(body, "signature") # Undef /\ TypeOf(Get(body, "signature")) # "string"
    THEN Invalid("signature must be a string")
  ELSE IF Get(body, "podcastGuid") # Undef /\ TypeOf(Get(body, "podcastGuid")) # "string"
    THEN Invalid("podcastGuid must be a string")
  ELSE IF Get(body, "rssItemGuid") # Undef /\ TypeOf(Get(body, "rssItemGuid")) # "string"
    THEN Invalid("rssItemGuid must be a string")
  ELSE [valid |-> TRUE]

\* ------------------------------------------------------------------ state
VARIABLES
  kv,        \* Redis string keys: key -> stored JSON text
  sets,      \* Redis set keys: key -> non-empty set of members
  nextUuid,  \* index of the next value uuidv4() returns
  proc,      \* proc[p]: the request handler p is running, with its locals
  resp,      \* the HTTP response sent by the last step, NoResp if none
  created,   \* history: [id, input] of every record storage.create wrote
  mutated,   \* history: ids a storage.update or storage.delete has written to
  deleted,   \* history: ids for which storage.delete returned true
  issued,    \* update tokens that a response has handed to a client
  lastToken, \* history: id -> token of the last 200 response of a POST or PUT for it
  used,      \* history: [id, token, proc] of every PUT or DELETE answered with success
  failures,  \* history: the number of calls to the storage backend that have failed
  updates,   \* history: the records storage.update was called with, and the ids it wrote
  canon,     \* the arguments and the results of a call of canonicalizeJSON
  client,    \* this.client of the storage singleton: createClient calls, connection state
  ops,       \* ops[p]: a storage operation on its way through getClient
  pages,     \* history: limit, offset and ids of every page a list request was answered with
  validation, \* a call of the metadata validator: its argument, then its result
  call,      \* a direct call of storage.create: its argument, its position, the store before it
  sequential \* TRUE when the clients send a request only after the last one ended

vars == <<kv, sets, nextUuid, proc, resp, created, mutated, deleted, issued, lastToken,
          used, failures, updates, canon, client, ops, call, pages, validation, sequential>>

\* a call to the storage backend has failed
failed == failures > 0

EmptyMap == [k \in {} |-> Null]

NotArrived == [pc |-> "new", method |-> "NONE", query |-> Undef, body |-> Undef,
         existingMetadata |-> Undef, newUpdateToken |-> Undef, metadata |-> Undef,
         pending |-> <<>>, results |-> <<>>, totalCount |-> 0]

Done == [NotArrived EXCEPT !.pc = "done"]

NoResp == [proc |-> 0, method |-> "NONE", query |-> Undef, body |-> Undef,
           status |-> 0, json |-> Undef, ret |-> "none"]

\* the handlers in this tree call the validators of lib/utils only
NoValidation == [stage |-> "none", body |-> Undef, result |-> Undef]

\* storage.create is called by handlePost only
NoCall == [pc |-> "idle", metadata |-> Undef, before |-> [kv |-> EmptyMap, sets |-> EmptyMap]]

Start ==
  /\ kv = EmptyMap
  /\ sets = EmptyMap
  /\ nextUuid = 1
  /\ proc = [p \in Procs |-> NotArrived]
  /\ resp = NoResp
  /\ created = {}
  /\ mutated = {}
  /\ deleted = {}
  /\ issued = {}
  /\ lastToken = EmptyMap
  /\ used = {}
  /\ failures = 0
  /\ updates = [called |-> {}, written |-> {}]
  /\ call = NoCall
  /\ pages = {}
  /\ validation = NoValidation

\* the handlers never call canonicalizeJSON
NoCanon == [stage |-> "none", x |-> Null, y |-> Null, cx |-> "", cy |-> ""]

\* a storage operation that has not started
NoOp == [pc |-> "idle", op |-> "none", left |-> 0, early |-> FALSE]

\* a process whose Redis client was created and connected by an earlier
\* request: the requests of the model run on it
Warm ==
  /\ client = [made |-> 1, state |-> "open"]
  /\ ops = [p \in Procs |-> NoOp]

\* requests may overlap
Init == Start /\ sequential = FALSE /\ canon = NoCanon /\ Warm

\* a sequential run
InitSeq == Start /\ sequential = TRUE /\ canon = NoCanon /\ Warm

\* ------------------------------------------------------------------ Redis
\* GET key: the stored text, or null
RedisGet(store, key) == IF key \in DOMAIN store THEN store[key] ELSE Null
\* SET key value
RedisSet(store, key, value) ==
  [k \in DOMAIN store \cup {key} |-> IF k = key THEN value ELSE store[k]]
\* a DEL that leaves the key in place
RedisDelKeeps(store, key) == store
\* DEL key
RedisDel(store, key) == [k \in DOMAIN store \ {key} |-> store[k]]
\* SMEMBERS key: the empty set for a key that does not exist
RedisSMembers(index, key) == IF key \in DOMAIN index THEN index[key] ELSE {}
\* SADD key member
RedisSAdd(index, key, member) ==
  [k \in DOMAIN index \cup {key} |-> RedisSMembers(index, k) \cup (IF k = key THEN {member} ELSE {})]
\* an SREM that leaves the member in the set
RedisSRemKeeps(index, key, member) == index

\* an SREM that removes the whole set
RedisSRemAll(index, key, member) == [k \in DOMAIN index \ {key} |-> index[k]]

\* SREM key member: Redis removes a set key when its last member goes
RedisSRem(index, key, member) ==
  [k \in {j \in DOMAIN index : index[j] \ (IF j = key THEN {member} ELSE {}) # {}} |->
      index[k] \ (IF k = key THEN {member} ELSE {})]
\* KEYS * : every key of the database, string keys and set keys alike
RedisKeysAll(store, index, prefix) == DOMAIN store \cup DOMAIN index
\* KEYS prefix* : the keys of the database that start with the prefix; the
\* keys of the model that do are the prefix followed by an identifier
RedisKeys(store, index, prefix) ==
  {k \in DOMAIN store \cup DOMAIN index : \E n \in 0..(MaxUuid + 1) : k = prefix \o UUID(n)}

\* ------------------------------------------------------------ lib/storage
PAYMENT_PREFIX == "payment:"
RSS_INDEX_PREFIX == "rss-index:"

getPaymentKey(id) == PAYMENT_PREFIX \o id

getRSSIndexKey(podcastGuid, rssItemGuid) ==
  RSS_INDEX_PREFIX \o ToStr(podcastGuid) \o ":" \o ToStr(rssItemGuid)

\* storage.findById(id): one GET, then JSON.parse
findById(store, id) ==
  LET data == RedisGet(store, getPaymentKey(id))
  IN IF data = Null THEN Null ELSE JSONparse(data)

\* a validateUpdateToken that only checks that the record exists
validateUpdateTokenAny(store, id, updateToken) == Truthy(findById(store, id))

\* a validateUpdateToken that accepts any token for an absent record
validateUpdateTokenAbsent(store, id, updateToken) ==
  LET metadata == findById(store, id)
  IN IF Truthy(metadata) THEN Get(metadata, "updateToken") = updateToken ELSE TRUE

\* storage.validateUpdateToken(id, updateToken): one findById
validateUpdateToken(store, id, updateToken) ==
  LET metadata == findById(store, id)
  IN IF Truthy(metadata) THEN Get(metadata, "updateToken") = updateToken ELSE FALSE

\* storage.findByRSSItem(podcastGuid, rssItemGuid) when no other request
\* runs between its awaits: the stored records of the members of the set
findByRSSItem(store, index, podcastGuid, rssItemGuid) ==
  {findById(store, id) : id \in RedisSMembers(index, getRSSIndexKey(podcastGuid, rssItemGuid))}
    \ {Null}

\* what storage.getTotalCount() returns: the number of keys payment:*
totalCountOf(store, index) == Cardinality(RedisKeys(store, index, PAYMENT_PREFIX))

\* `metadata.podcastGuid || metadata.rssItemGuid`
HasRSSItemEither(metadata) ==
  Truthy(Get(metadata, "podcastGuid")) \/ Truthy(Get(metadata, "rssItemGuid"))

\* `metadata.podcastGuid && metadata.rssItemGuid` of create and delete
HasRSSItem(metadata) ==
  Truthy(Get(metadata, "podcastGuid")) /\ Truthy(Get(metadata, "rssItemGuid"))

\* --------------------------------------------------------------- responses
Bool(b) == [t |-> "boolean", v |-> b]

\* what JSON.stringify leaves of an object: no undefined properties
Strip(o) == Obj([k \in {j \in DOMAIN o.v : o.v[j].t # "undefined"} |-> o.v[k]])

\* res.json(data): the body as the client parses it
ToJson(data) ==
  CASE data.t = "object" ->
         Obj([k \in {j \in DOMAIN data.v : data.v[j].t # "undefined"} |->
                IF data.v[k].t = "array"
                  THEN Arr([i \in DOMAIN data.v[k].v |-> Strip(data.v[k].v[i])])
                  ELSE data.v[k]])
    [] data.t = "array" -> Arr([i \in DOMAIN data.v |-> Strip(data.v[i])])
    [] OTHER -> data

Request(method, query, body) == [method |-> method, query |-> query, body |-> body]
RequestOf(p) == Request(proc[p].method, proc[p].query, proc[p].body)

\* res.status(status).json(data) ends the handler of p; ret is what the
\* storage mutation of the handler returned ("none" if it made none)
Send(p, req, status, data, ret) ==
  /\ resp' = [proc |-> p, method |-> req.method, query |-> req.query, body |-> req.body,
              status |-> status, json |-> ToJson(data), ret |-> ret]
  /\ proc' = [proc EXCEPT ![p] = Done]
  /\ lastToken' =
       IF req.method \in {"POST", "PUT"} /\ status = 200
         THEN [i \in DOMAIN lastToken \cup {Get(data, "id").v} |->
                 IF i = Get(data, "id").v THEN Get(data, "updateToken").v ELSE lastToken[i]]
         ELSE lastToken
  /\ used' =
       IF req.method \in {"PUT", "DELETE"} /\ status < 300
         THEN used \cup {[id |-> IF req.method = "PUT" THEN Get(req.body, "id")
                                                       ELSE Get(req.query, "id"),
                          token |-> Get(req.query, "updateToken"), proc |-> p]}
         ELSE used
  /\ failures' = failures + (IF ret = "throw" THEN 1 ELSE 0)
  /\ pages' =
       IF req.method = "LIST" /\ status = 200
         THEN pages \cup
                {[limit |-> Get(Get(data, "pagination"), "limit").v,
                  offset |-> Get(Get(data, "pagination"), "offset").v,
                  ids |-> [i \in DOMAIN Get(data, "data").v |->
                             Get(Get(data, "data").v[i], "id")]]}
         ELSE pages
  /\ UNCHANGED <<updates, canon, client, ops, call, validation, sequential>>

\* the handler of p goes on to its next await
Goto(p, next) ==
  /\ proc' = [proc EXCEPT ![p] = next]
  /\ resp' = NoResp
  /\ updates' =
       CASE next.pc = "update_findById" ->
              [updates EXCEPT !.called = @ \cup {next.metadata}]
         [] next.pc = "put_respond" ->
              [updates EXCEPT !.written = @ \cup {Get(next.metadata, "id").v}]
         [] OTHER -> updates
  /\ UNCHANGED <<lastToken, used, failures, canon, client, ops, call, pages, validation, sequential>>

sendError(message) == Obj([error |-> Str(message)])

\* the handler of p is between two awaits
InFlight(p) == proc[p].pc \notin {"new", "done"}

\* request p arrives: the requests before it have arrived, the last
\* response has reached its client and, in a sequential run, no handler is
\* in flight
Arrives(p) ==
  /\ resp = NoResp
  /\ proc[p].pc = "new"
  /\ \A q \in 1..(p - 1) : proc[q].pc # "new"
  /\ sequential => \A q \in Procs : ~InFlight(q)

\* the handler of p resumes at the await named label
At(p, label) == resp = NoResp /\ proc[p].pc = label

\* ------------------------------------------------ POST /v1/payment-metadata
\* handlePost up to and including the SET of storage.create
\* a create that writes the index entry first and the record second
handlePost_indexFirst(p, body) ==
  /\ Arrives(p)
  /\ LET req == Request("POST", Undef, body)
         error == validatePaymentMetadataNew(body)
     IN IF error # ""
        THEN /\ Send(p, req, 400, sendError(error), "none")
             /\ UNCHANGED <<kv, sets, nextUuid, created, mutated, deleted, issued>>
        ELSE /\ LET id == UUID(nextUuid)
                    updateToken == UUID(nextUuid + 1)
                    metadata == Obj([id |-> Str(id),
                                     jpt |-> Get(body, "jpt"),
                                     type |-> Get(body, "type"),
                                     updateToken |-> Str(updateToken),
                                     podcastGuid |-> Get(body, "podcastGuid"),
                                     rssItemGuid |-> Get(body, "rssItemGuid")])
                IN /\ nextUuid' = nextUuid + 2
                   /\ created' = created \cup {[id |-> id, input |-> body]}
                   /\ IF HasRSSItem(metadata)
                      THEN /\ sets' = RedisSAdd(sets, getRSSIndexKey(Get(metadata, "podcastGuid"),
                                                                     Get(metadata, "rssItemGuid")), id)
                           /\ kv' = kv
                           /\ Goto(p, [NotArrived EXCEPT !.pc = "create_sAdd", !.method = "POST",
                                                           !.body = body, !.metadata = metadata])
                      ELSE /\ kv' = RedisSet(kv, getPaymentKey(id), JSONstringify(metadata))
                           /\ sets' = sets
                           /\ Send(p, req, 200,
                                   Obj([id |-> Str(id), updateToken |-> Str(updateToken)]), "none")
                   /\ UNCHANGED <<mutated, deleted, issued>>

handlePost(p, body) ==
  /\ Arrives(p)
  /\ LET req == Request("POST", Undef, body)
         error == validatePaymentMetadataNew(body)
     IN IF error # ""
        THEN /\ Send(p, req, 400, sendError(error), "none")
             /\ UNCHANGED <<kv, sets, nextUuid, created, mutated, deleted, issued>>
        ELSE /\ LET id == UUID(nextUuid)
                    updateToken == UUID(nextUuid + 1)
                    metadata == Obj([id |-> Str(id),
                                     jpt |-> Get(body, "jpt"),
                                     type |-> Get(body, "type"),
                                     updateToken |-> Str(updateToken),
                                     podcastGuid |-> Get(body, "podcastGuid"),
                                     rssItemGuid |-> Get(body, "rssItemGuid")])
                IN /\ nextUuid' = nextUuid + 2
                   /\ kv' = RedisSet(kv, getPaymentKey(id), JSONstringify(metadata))
                   /\ created' = created \cup {[id |-> id, input |-> body]}
                   /\ IF HasRSSItem(metadata)
                      THEN Goto(p, [NotArrived EXCEPT !.pc = "create_sAdd", !.method = "POST",
                                                      !.body = body, !.metadata = metadata])
                      ELSE Send(p, req, 200,
                                Obj([id |-> Str(id), updateToken |-> Str(updateToken)]), "none")
                   /\ UNCHANGED <<sets, mutated, deleted, issued>>

\* a create that answers without registering the id in the index
create_sAdd_skip(p) ==
  /\ At(p, "create_sAdd")
  /\ Send(p, RequestOf(p), 200,
          Obj([id |-> Get(proc[p].metadata, "id"),
               updateToken |-> Get(proc[p].metadata, "updateToken")]), "none")
  /\ UNCHANGED <<kv, sets, nextUuid, created, mutated, deleted, issued>>

\* the SADD of storage.create, and the response of handlePost
create_sAdd(p) ==
  /\ At(p, "create_sAdd")
  /\ LET metadata == proc[p].metadata
         indexKey == getRSSIndexKey(Get(metadata, "podcastGuid"), Get(metadata, "rssItemGuid"))
     IN /\ sets' = RedisSAdd(sets, indexKey, Get(metadata, "id").v)
        /\ Send(p, RequestOf(p), 200,
                Obj([id |-> Get(metadata, "id"), updateToken |-> Get(metadata, "updateToken")]),
                "none")
  /\ UNCHANGED <<kv, nextUuid, created, mutated, deleted, issued>>

\* ------------------------------------------------- PUT /v1/payment-metadata
\* handlePut up to and including its first findById
handlePut(p, query, body) ==
  /\ Arrives(p)
  /\ LET req == Request("PUT", query, body)
         updateToken == Get(query, "updateToken")
         error == validatePaymentMetadataUpdate(body)
         existingMetadata == findById(kv, Get(body, "id").v)
     IN IF ~Truthy(updateToken) \/ TypeOf(updateToken) # "string" \/ ~isValidUUID(updateToken)
        THEN Send(p, req, 400, sendError("Valid updateToken query parameter is required"), "none")
        ELSE IF error # ""
        THEN Send(p, req, 400, sendError(error), "none")
        ELSE IF ~Truthy(existingMetadata)
        THEN Send(p, req, 404, sendError("Payment metadata not found"), "none")
        ELSE Goto(p, [NotArrived EXCEPT !.pc = "put_validate", !.method = "PUT",
                                        !.query = query, !.body = body,
                                        !.existingMetadata = existingMetadata])
  /\ UNCHANGED <<kv, sets, nextUuid, created, mutated, deleted, issued>>

\* a handlePut that takes the RSS item pair from the request body
put_validate_bodyPair(p) ==
  /\ At(p, "put_validate")
  /\ LET body == proc[p].body
         isValidToken == validateUpdateToken(kv, Get(body, "id").v, Get(proc[p].query, "updateToken"))
         newUpdateToken == Str(UUID(nextUuid))
         updatedMetadata == Obj([id |-> Get(body, "id"),
                                 jpt |-> Get(body, "jpt"),
                                 type |-> Get(body, "type"),
                                 updateToken |-> newUpdateToken,
                                 podcastGuid |-> Get(body, "podcastGuid"),
                                 rssItemGuid |-> Get(body, "rssItemGuid")])
     IN IF ~isValidToken
        THEN /\ Send(p, RequestOf(p), 400, sendError("Invalid updateToken"), "none")
             /\ UNCHANGED nextUuid
        ELSE /\ nextUuid' = nextUuid + 1
             /\ Goto(p, [proc[p] EXCEPT !.pc = "update_findById",
                                        !.newUpdateToken = newUpdateToken,
                                        !.metadata = updatedMetadata])
  /\ UNCHANGED <<kv, sets, created, mutated, deleted, issued>>

\* validateUpdateToken of handlePut; a valid token draws the new token
\* and builds the replacement record
put_validate(p) ==
  /\ At(p, "put_validate")
  /\ LET body == proc[p].body
         existingMetadata == proc[p].existingMetadata
         isValidToken == validateUpdateToken(kv, Get(body, "id").v, Get(proc[p].query, "updateToken"))
         newUpdateToken == Str(UUID(nextUuid))
         updatedMetadata == Obj([id |-> Get(body, "id"),
                                 jpt |-> Get(body, "jpt"),
                                 type |-> Get(body, "type"),
                                 updateToken |-> newUpdateToken,
                                 podcastGuid |-> Get(existingMetadata, "podcastGuid"),
                                 rssItemGuid |-> Get(existingMetadata, "rssItemGuid")])
     IN IF ~isValidToken
        THEN /\ Send(p, RequestOf(p), 400, sendError("Invalid updateToken"), "none")
             /\ UNCHANGED nextUuid
        ELSE /\ nextUuid' = nextUuid + 1
             /\ Goto(p, [proc[p] EXCEPT !.pc = "update_findById",
                                        !.newUpdateToken = newUpdateToken,
                                        !.metadata = updatedMetadata])
  /\ UNCHANGED <<kv, sets, created, mutated, deleted, issued>>

\* an update that writes without looking for the prior record
update_findById_blind(p) ==
  /\ At(p, "update_findById")
  /\ Goto(p, [proc[p] EXCEPT !.pc = "update_set"])
  /\ UNCHANGED <<kv, sets, nextUuid, created, mutated, deleted, issued>>

\* the findById of storage.update; handlePut ignores a false return
update_findById(p) ==
  /\ At(p, "update_findById")
  /\ LET existing == findById(kv, Get(proc[p].metadata, "id").v)
     IN IF ~Truthy(existing)
        THEN Send(p, RequestOf(p), 200,
                  Obj([id |-> Get(proc[p].body, "id"),
                       updateToken |-> proc[p].newUpdateToken]), "false")
        ELSE Goto(p, [proc[p] EXCEPT !.pc = "update_set"])
  /\ UNCHANGED <<kv, sets, nextUuid, created, mutated, deleted, issued>>

\* an update that registers the id under the pair of the request body
update_set_reindex(p) ==
  /\ At(p, "update_set")
  /\ LET metadata == proc[p].metadata
         id == Get(metadata, "id").v
         indexKey == getRSSIndexKey(Get(proc[p].body, "podcastGuid"),
                                    Get(proc[p].body, "rssItemGuid"))
     IN /\ kv' = RedisSet(kv, getPaymentKey(id), JSONstringify(metadata))
        /\ sets' = RedisSAdd(sets, indexKey, id)
        /\ mutated' = mutated \cup {id}
  /\ Goto(p, [proc[p] EXCEPT !.pc = "put_respond"])
  /\ UNCHANGED <<nextUuid, created, deleted, issued>>

\* an update that writes the new type and token over the stored record
\* and leaves the other fields of the stored record as they are
update_set_merge(p) ==
  /\ At(p, "update_set")
  /\ LET metadata == proc[p].metadata
         stored == findById(kv, Get(metadata, "id").v)
         merged == IF stored = Null THEN metadata
                   ELSE Obj([stored.v EXCEPT !["type"] = Get(metadata, "type"),
                                             !["updateToken"] = Get(metadata, "updateToken")])
     IN /\ kv' = RedisSet(kv, getPaymentKey(Get(metadata, "id").v), JSONstringify(merged))
        /\ mutated' = mutated \cup {Get(metadata, "id").v}
  /\ Goto(p, [proc[p] EXCEPT !.pc = "put_respond"])
  /\ UNCHANGED <<sets, nextUuid, created, deleted, issued>>

\* the SET of storage.update.  Redis runs it when it receives it; the
\* handler learns of it, and answers, only when the reply comes back, and
\* commands of other requests can reach Redis in between.
update_set(p) ==
  /\ At(p, "update_set")
  /\ LET metadata == proc[p].metadata
     IN /\ kv' = RedisSet(kv, getPaymentKey(Get(metadata, "id").v), JSONstringify(metadata))
        /\ mutated' = mutated \cup {Get(metadata, "id").v}
  /\ Goto(p, [proc[p] EXCEPT !.pc = "put_respond"])
  /\ UNCHANGED <<sets, nextUuid, created, deleted, issued>>

\* storage.update returns true and handlePut answers with the new token
put_respond(p) ==
  /\ At(p, "put_respond")
  /\ Send(p, RequestOf(p), 200,
          Obj([id |-> Get(proc[p].body, "id"), updateToken |-> proc[p].newUpdateToken]), "true")
  /\ UNCHANGED <<kv, sets, nextUuid, created, mutated, deleted, issued>>

\* ------------------------------------------- DELETE /v1/payment-metadata/:id
\* handleDelete up to and including its first findById
\* a handleDelete that checks the token before it looks for the record:
\* an absent record is answered like a wrong token
handleDelete_tokenFirst(p, query) ==
  /\ Arrives(p)
  /\ LET req == Request("DELETE", query, Undef)
         id == Get(query, "id")
         updateToken == Get(query, "updateToken")
         metadata == findById(kv, id.v)
     IN IF ~Truthy(id) \/ TypeOf(id) # "string" \/ ~isValidUUID(id)
        THEN Send(p, req, 400, sendError("Invalid payment-metadata id"), "none")
        ELSE IF ~Truthy(updateToken) \/ TypeOf(updateToken) # "string" \/ ~isValidUUID(updateToken)
        THEN Send(p, req, 400, sendError("Valid updateToken query parameter is required"), "none")
        ELSE IF ~Truthy(metadata)
        THEN Send(p, req, 400, sendError("Invalid updateToken"), "none")
        ELSE Goto(p, [NotArrived EXCEPT !.pc = "delete_validate", !.method = "DELETE", !.query = query])
  /\ UNCHANGED <<kv, sets, nextUuid, created, mutated, deleted, issued>>

handleDelete(p, query) ==
  /\ Arrives(p)
  /\ LET req == Request("DELETE", query, Undef)
         id == Get(query, "id")
         updateToken == Get(query, "updateToken")
         metadata == findById(kv, id.v)
     IN IF ~Truthy(id) \/ TypeOf(id) # "string" \/ ~isValidUUID(id)
        THEN Send(p, req, 400, sendError("Invalid payment-metadata id"), "none")
        ELSE IF ~Truthy(updateToken) \/ TypeOf(updateToken) # "string" \/ ~isValidUUID(updateToken)
        THEN Send(p, req, 400, sendError("Valid updateToken query parameter is required"), "none")
        ELSE IF ~Truthy(metadata)
        THEN Send(p, req, 404, sendError("Payment metadata not found"), "none")
        ELSE Goto(p, [NotArrived EXCEPT !.pc = "delete_validate", !.method = "DELETE", !.query = query])
  /\ UNCHANGED <<kv, sets, nextUuid, created, mutated, deleted, issued>>

\* validateUpdateToken of handleDelete
delete_validate(p) ==
  /\ At(p, "delete_validate")
  /\ LET query == proc[p].query
         isValidToken == validateUpdateToken(kv, Get(query, "id").v, Get(query, "updateToken"))
     IN IF ~isValidToken
        THEN Send(p, RequestOf(p), 400, sendError("Invalid updateToken"), "none")
        ELSE Goto(p, [proc[p] EXCEPT !.pc = "delete_findById"])
  /\ UNCHANGED <<kv, sets, nextUuid, created, mutated, deleted, issued>>

DeletedMessage == Obj([message |-> Str("Payment metadata deleted successfully")])

\* the findById of storage.delete; handleDelete ignores a false return
delete_findById(p) ==
  /\ At(p, "delete_findById")
  /\ LET metadata == findById(kv, Get(proc[p].query, "id").v)
     IN IF ~Truthy(metadata)
        THEN Send(p, RequestOf(p), 201, DeletedMessage, "false")
        ELSE Goto(p, [proc[p] EXCEPT !.pc = "delete_del", !.metadata = metadata])
  /\ UNCHANGED <<kv, sets, nextUuid, created, mutated, deleted, issued>>

\* the DEL of storage.delete; the handler answers here when the record
\* carries no RSS item
delete_del(p) ==
  /\ At(p, "delete_del")
  /\ LET id == Get(proc[p].query, "id").v
     IN /\ kv' = RedisDel(kv, getPaymentKey(id))
        /\ mutated' = mutated \cup {id}
        /\ IF HasRSSItem(proc[p].metadata)
           THEN /\ Goto(p, [proc[p] EXCEPT !.pc = "delete_sRem"])
                /\ UNCHANGED deleted
           ELSE /\ Send(p, RequestOf(p), 201, DeletedMessage, "true")
                /\ deleted' = deleted \cup {id}
  /\ UNCHANGED <<sets, nextUuid, created, issued>>

\* the SREM of storage.delete, and the response of handleDelete
delete_sRem(p) ==
  /\ At(p, "delete_sRem")
  /\ LET metadata == proc[p].metadata
         id == Get(proc[p].query, "id").v
         indexKey == getRSSIndexKey(Get(metadata, "podcastGuid"), Get(metadata, "rssItemGuid"))
     IN /\ sets' = RedisSRem(sets, indexKey, id)
        /\ deleted' = deleted \cup {id}
  /\ Send(p, RequestOf(p), 201, DeletedMessage, "true")
  /\ UNCHANGED <<kv, nextUuid, created, mutated, issued>>

\* ---------------------------------------------- GET /v1/payment-metadata/:id
\* a copy of the record that keeps the update token
PublicFieldsWithToken(metadata) ==
  Obj([id |-> Get(metadata, "id"),
       jpt |-> Get(metadata, "jpt"),
       type |-> Get(metadata, "type"),
       updateToken |-> Get(metadata, "updateToken"),
       podcastGuid |-> Get(metadata, "podcastGuid"),
       rssItemGuid |-> Get(metadata, "rssItemGuid")])

\* the public fields handleGet and the findByRSSItem handler copy
PublicFields(metadata) ==
  Obj([id |-> Get(metadata, "id"),
       jpt |-> Get(metadata, "jpt"),
       type |-> Get(metadata, "type"),
       podcastGuid |-> Get(metadata, "podcastGuid"),
       rssItemGuid |-> Get(metadata, "rssItemGuid")])

handleGet(p, query) ==
  /\ Arrives(p)
  /\ LET req == Request("GET", query, Undef)
         id == Get(query, "id")
         metadata == findById(kv, id.v)
     IN IF ~Truthy(id) \/ TypeOf(id) # "string" \/ ~isValidUUID(id)
        THEN Send(p, req, 400, sendError("Invalid ID supplied"), "none")
        ELSE IF ~Truthy(metadata)
        THEN Send(p, req, 404, sendError("Payment metadata not found"), "none")
        ELSE Send(p, req, 200, PublicFields(metadata), "none")
  /\ UNCHANGED <<kv, sets, nextUuid, created, mutated, deleted, issued>>

\* ------------------------------- GET /v1/payment-metadata/findByRSSItem
\* the orders in which Redis may return the members of a set
Orders(S) == {o \in [1..Cardinality(S) -> S] : \A i, j \in 1..Cardinality(S) : o[i] = o[j] => i = j}

\* a map that answers with the first record only
MapPublicHead(results) == Arr([i \in {1} |-> PublicFields(results[1])])

\* results.map(item => ({...})) of the findByRSSItem handler
MapPublic(results) == Arr([i \in DOMAIN results |-> PublicFields(results[i])])

\* the handler up to and including the SMEMBERS of storage.findByRSSItem
handleFindByRSSItem(p, query) ==
  /\ Arrives(p)
  /\ LET req == Request("FIND", query, Undef)
         podcastGuid == Get(query, "podcastGuid")
         rssItemGuid == Get(query, "rssItemGuid")
     IN IF ~Truthy(podcastGuid) \/ TypeOf(podcastGuid) # "string"
        THEN Send(p, req, 400, sendError("podcastGuid query parameter is required"), "none")
        ELSE IF ~Truthy(rssItemGuid) \/ TypeOf(rssItemGuid) # "string"
        THEN Send(p, req, 400, sendError("rssItemGuid query parameter is required"), "none")
        ELSE LET paymentIds == RedisSMembers(sets, getRSSIndexKey(podcastGuid, rssItemGuid))
             IN IF paymentIds = {}
                THEN Send(p, req, 404, sendError("RSS Item not found"), "none")
                ELSE \E order \in Orders(paymentIds) :
                        Goto(p, [NotArrived EXCEPT !.pc = "findByRSSItem_get", !.method = "FIND",
                                             !.query = query, !.pending = order])
  /\ UNCHANGED <<kv, sets, nextUuid, created, mutated, deleted, issued>>

\* a loop that keeps what findById returned, null included
findByRSSItem_get_push(p) ==
  /\ At(p, "findByRSSItem_get")
  /\ LET metadata == findById(kv, Head(proc[p].pending))
         results == Append(proc[p].results, metadata)
     IN IF Tail(proc[p].pending) # <<>>
        THEN Goto(p, [proc[p] EXCEPT !.pending = Tail(@), !.results = results])
        ELSE Send(p, RequestOf(p), 200, MapPublic(results), "none")
  /\ UNCHANGED <<kv, sets, nextUuid, created, mutated, deleted, issued>>

\* one findById of the loop of storage.findByRSSItem; after the last one
\* the handler answers
findByRSSItem_get(p) ==
  /\ At(p, "findByRSSItem_get")
  /\ LET metadata == findById(kv, Head(proc[p].pending))
         results == IF Truthy(metadata) THEN Append(proc[p].results, metadata)
                    ELSE proc[p].results
     IN IF Tail(proc[p].pending) # <<>>
        THEN Goto(p, [proc[p] EXCEPT !.pending = Tail(@), !.results = results])
        ELSE IF Len(results) = 0
        THEN Send(p, RequestOf(p), 404, sendError("RSS Item not found"), "none")
        ELSE Send(p, RequestOf(p), 200, MapPublic(results), "none")
  /\ UNCHANGED <<kv, sets, nextUuid, created, mutated, deleted, issued>>

\* ------------------------------------------------ GET /v1/payment-metadata
\* parseInt(text, 10), over the query texts of the model
parseInt(text) ==
  CASE text = "100" -> Num(100)
    [] text = "1001" -> Num(1001)
    [] text = "2" -> Num(2)
    [] text = "1" -> Num(1)
    [] text = "0" -> Num(0)
    [] text = "-1" -> Num(0 - 1)
    [] OTHER -> NaN

isNaN(x) == x.t = "NaN"

\* keys.slice(offset)
SliceNoLimit(keys, offset, limit) == SubSeq(keys, offset + 1, Len(keys))

\* keys.slice(offset, offset + limit)
Slice(keys, offset, limit) ==
  SubSeq(keys, offset + 1, IF offset + limit < Len(keys) THEN offset + limit ELSE Len(keys))

\* the fields the list handler copies
ListFields(item) ==
  Obj([id |-> Get(item, "id"),
       type |-> Get(item, "type"),
       metadata |-> Get(item, "metadata"),
       signature |-> Get(item, "signature"),
       podcastGuid |-> Get(item, "podcastGuid"),
       rssItemGuid |-> Get(item, "rssItemGuid"),
       createdAt |-> Get(item, "createdAt")])

limitOf(query) == parseInt(IF Get(query, "limit") = Undef THEN "100" ELSE Get(query, "limit").v)
offsetOf(query) == parseInt(IF Get(query, "offset") = Undef THEN "0" ELSE Get(query, "offset").v)

\* a response whose hasMore is `offset + limit <= total`
ListResponseInclusive(query, results, totalCount) ==
  Obj([data |-> Arr([i \in DOMAIN results |-> ListFields(results[i])]),
       pagination |-> Obj([limit |-> limitOf(query),
                           offset |-> offsetOf(query),
                           total |-> Num(totalCount),
                           hasMore |-> Bool(offsetOf(query).v + limitOf(query).v <= totalCount)])])

\* the response of the list handler
ListResponse(query, results, totalCount) ==
  Obj([data |-> Arr([i \in DOMAIN results |-> ListFields(results[i])]),
       pagination |-> Obj([limit |-> limitOf(query),
                           offset |-> offsetOf(query),
                           total |-> Num(totalCount),
                           hasMore |-> Bool(offsetOf(query).v + limitOf(query).v < totalCount)])])

\* the list handler up to and including the KEYS of storage.findAll
handleList(p, query) ==
  /\ Arrives(p)
  /\ LET req == Request("LIST", query, Undef)
         limitNum == limitOf(query)
         offsetNum == offsetOf(query)
     IN IF isNaN(limitNum) \/ limitNum.v < 1 \/ limitNum.v > 1000
        THEN Send(p, req, 400, sendError("Invalid limit parameter (must be 1-1000)"), "none")
        ELSE IF isNaN(offsetNum) \/ offsetNum.v < 0
        THEN Send(p, req, 400, sendError("Invalid offset parameter (must be >= 0)"), "none")
        ELSE \E keys \in Orders(RedisKeys(kv, sets, PAYMENT_PREFIX)) :
                Goto(p, [NotArrived EXCEPT !.pc = "getTotalCount", !.method = "LIST", !.query = query,
                                     !.pending = Slice(keys, offsetNum.v, limitNum.v)])
  /\ UNCHANGED <<kv, sets, nextUuid, created, mutated, deleted, issued>>

\* the KEYS of storage.getTotalCount, which Promise.all starts together
\* with findAll; with an empty page the handler answers here
getTotalCount(p) ==
  /\ At(p, "getTotalCount")
  /\ LET totalCount == totalCountOf(kv, sets)
     IN IF proc[p].pending = <<>>
        THEN Send(p, RequestOf(p), 200, ListResponse(proc[p].query, <<>>, totalCount), "none")
        ELSE Goto(p, [proc[p] EXCEPT !.pc = "findAll_get", !.totalCount = totalCount])
  /\ UNCHANGED <<kv, sets, nextUuid, created, mutated, deleted, issued>>

\* a loop that keeps an entry for a key whose GET returned null
findAll_get_push(p) ==
  /\ At(p, "findAll_get")
  /\ LET data == RedisGet(kv, Head(proc[p].pending))
         results == Append(proc[p].results, IF data # Null THEN JSONparse(data) ELSE Null)
     IN IF Tail(proc[p].pending) # <<>>
        THEN Goto(p, [proc[p] EXCEPT !.pending = Tail(@), !.results = results])
        ELSE Send(p, RequestOf(p), 200,
                  ListResponse(proc[p].query, results, proc[p].totalCount), "none")
  /\ UNCHANGED <<kv, sets, nextUuid, created, mutated, deleted, issued>>

\* a loop that puts the key it has read back at the end of the page
findAll_get_again(p) ==
  /\ At(p, "findAll_get")
  /\ IF Tail(proc[p].pending) # <<>>
       THEN Goto(p, [proc[p] EXCEPT !.pending = Append(Tail(@), Head(@))])
       ELSE Send(p, RequestOf(p), 200,
                 ListResponse(proc[p].query, proc[p].results, proc[p].totalCount), "none")
  /\ UNCHANGED <<kv, sets, nextUuid, created, mutated, deleted, issued>>

\* one GET of the loop of storage.findAll; after the last one the handler
\* answers
findAll_get(p) ==
  /\ At(p, "findAll_get")
  /\ LET data == RedisGet(kv, Head(proc[p].pending))
         results == IF data # Null THEN Append(proc[p].results, JSONparse(data))
                    ELSE proc[p].results
     IN IF Tail(proc[p].pending) # <<>>
        THEN Goto(p, [proc[p] EXCEPT !.pending = Tail(@), !.results = results])
        ELSE Send(p, RequestOf(p), 200,
                  ListResponse(proc[p].query, results, proc[p].totalCount), "none")
  /\ UNCHANGED <<kv, sets, nextUuid, created, mutated, deleted, issued>>

\* --------------------------------------------------------- backend failure
\* the catch block of the handler of a method
catchStatus(method) == IF method \in {"POST", "PUT"} THEN 422 ELSE 500
catchError(method) ==
  IF method \in {"POST", "PUT"} THEN sendError("Validation exception")
  ELSE sendError("Internal server error")

\* the request passes the checks its handler makes before its first
\* storage call
ReachesBackend(req) ==
  CASE req.method = "POST" -> validatePaymentMetadataNew(req.body) = ""
    [] req.method = "PUT" ->
         /\ Truthy(Get(req.query, "updateToken"))
         /\ TypeOf(Get(req.query, "updateToken")) = "string"
         /\ isValidUUID(Get(req.query, "updateToken"))
         /\ validatePaymentMetadataUpdate(req.body) = ""
    [] req.method = "DELETE" ->
         /\ Truthy(Get(req.query, "id")) /\ TypeOf(Get(req.query, "id")) = "string"
         /\ isValidUUID(Get(req.query, "id"))
         /\ Truthy(Get(req.query, "updateToken"))
         /\ TypeOf(Get(req.query, "updateToken")) = "string"
         /\ isValidUUID(Get(req.query, "updateToken"))
    [] req.method = "GET" ->
         /\ Truthy(Get(req.query, "id")) /\ TypeOf(Get(req.query, "id")) = "string"
         /\ isValidUUID(Get(req.query, "id"))
    [] req.method = "FIND" ->
         /\ Truthy(Get(req.query, "podcastGuid")) /\ TypeOf(Get(req.query, "podcastGuid")) = "string"
         /\ Truthy(Get(req.query, "rssItemGuid")) /\ TypeOf(Get(req.query, "rssItemGuid")) = "string"
    [] req.method = "LIST" ->
         /\ ~isNaN(limitOf(req.query)) /\ limitOf(req.query).v >= 1 /\ limitOf(req.query).v <= 1000
         /\ ~isNaN(offsetOf(req.query)) /\ offsetOf(req.query).v >= 0

\* a later storage call of the handler of p rejects at the await it is
\* suspended on; what the earlier calls wrote stays written
backendFails(p) ==
  /\ resp = NoResp
  /\ InFlight(p)
  /\ proc[p].pc # "put_respond"
  /\ Send(p, RequestOf(p), catchStatus(proc[p].method), catchError(proc[p].method), "throw")
  /\ UNCHANGED <<kv, sets, nextUuid, created, mutated, deleted, issued>>

\* ----------------------------------------------------------------- clients
\* request bodies of POST: the first four are accepted
NewBodies ==
  { Obj([type |-> Str("bitcoin-lightning"), jpt |-> JPT1,
         metadata |-> Obj([payment_hash |-> Str("abc")]), signature |-> Str("sig"),
         podcastGuid |-> Str("a"), rssItemGuid |-> Str("b:c")]),
    Obj([type |-> Str("monero"), jpt |-> JPT2,
         podcastGuid |-> Str("a:b"), rssItemGuid |-> Str("c")]),
    Obj([type |-> Str("monero"), jpt |-> Str("hdr1.pay1.sig1"),
         podcastGuid |-> Str(""), rssItemGuid |-> Str("c")]),
    Obj([type |-> Str("bitcoin-lightning"), jpt |-> JPT1, signature |-> Num(7),
         rssItemGuid |-> Str("c")]),
    Obj([type |-> Str("dogecoin"), jpt |-> JPT1]),
    Obj([type |-> Str("monero"), jpt |-> JPTBadTyp]),
    Obj([type |-> Str("monero"), jpt |-> Str("hdr1.pay1")]),
    Obj([type |-> Str("monero"), metadata |-> Obj([payment_hash |-> Str("abc")])]) }

\* ids and tokens a client can present: those it has learnt and a
\* well-formed one that was never handed out
IdInputs == {Str(r.id) : r \in created} \cup {Str(UUID(0))}
TokenInputs == {Str(t) : t \in issued} \cup {Str(UUID(0))}

\* the request body of a PUT for a record id and a body token; the pair
\* of the body differs from the pair of every record created
UpdateBody(id, token) ==
  IF token = Str(UUID(0))
    THEN Obj([id |-> id, updateToken |-> token, type |-> Str("bitcoin-lightning"),
              jpt |-> JPT1, metadata |-> Obj([payment_hash |-> Str("ghi")]),
              podcastGuid |-> Str("x"), rssItemGuid |-> Str("y")])
    ELSE Obj([id |-> id, updateToken |-> token, type |-> Str("monero"), jpt |-> JPT2,
              metadata |-> Obj([payment_hash |-> Str("def")]),
              podcastGuid |-> Str("x"), rssItemGuid |-> Str("y")])

\* PUT requests: well-formed ones, which repeat the token in the body,
\* one whose body token differs, and malformed ones
PutRequests ==
  {[query |-> Obj([updateToken |-> t]), body |-> UpdateBody(i, t)] : i \in IdInputs, t \in TokenInputs}
    \cup {[query |-> Obj([updateToken |-> t]), body |-> UpdateBody(i, Str(UUID(0)))] :
            i \in IdInputs, t \in TokenInputs \ {Str(UUID(0))}}
    \cup {[query |-> Obj(EmptyMap), body |-> UpdateBody(Str(UUID(0)), Str(UUID(0)))],
          [query |-> Obj([updateToken |-> Str("not-a-uuid")]),
           body |-> UpdateBody(Str(UUID(0)), Str(UUID(0)))],
          [query |-> Obj([updateToken |-> Str(UUID(0))]),
           body |-> UpdateBody(Str("not-a-uuid"), Str(UUID(0)))],
          [query |-> Obj([updateToken |-> Str(UUID(0))]),
           body |-> Obj([id |-> Str(UUID(0)), updateToken |-> Str(UUID(0)), jpt |-> JPT1])]}

DeleteQueries ==
  {Obj([id |-> i, updateToken |-> t]) : i \in IdInputs, t \in TokenInputs}
    \cup {Obj([id |-> Str(UUID(0))]),
          Obj([updateToken |-> Str(UUID(0))]),
          Obj([id |-> Str("not-a-uuid"), updateToken |-> Str(UUID(0))]),
          Obj([id |-> Str(UUID(0)), updateToken |-> Str("not-a-uuid")])}

GetQueries == {Obj([id |-> i]) : i \in IdInputs} \cup {Obj([id |-> Str("not-a-uuid")]), Obj(EmptyMap)}

FindQueries ==
  { Obj([podcastGuid |-> Str("a"), rssItemGuid |-> Str("b:c")]),
    Obj([podcastGuid |-> Str("a:b"), rssItemGuid |-> Str("c")]),
    Obj([podcastGuid |-> Str("a"), rssItemGuid |-> Str("c")]),
    Obj([podcastGuid |-> Str(""), rssItemGuid |-> Str("c")]),
    Obj([podcastGuid |-> Str("a")]) }

ListQueries ==
  { Obj(EmptyMap),
    Obj([limit |-> Str("1")]),
    Obj([limit |-> Str("1"), offset |-> Str("1")]),
    Obj([limit |-> Str("2"), offset |-> Str("1")]),
    Obj([limit |-> Str("0")]),
    Obj([limit |-> Str("1001")]),
    Obj([limit |-> Str("abc")]),
    Obj([offset |-> Str("-1")]) }

\* every request a client can send
Requests ==
  {Request("POST", Undef, body) : body \in NewBodies}
    \cup {Request("PUT", r.query, r.body) : r \in PutRequests}
    \cup {Request("DELETE", query, Undef) : query \in DeleteQueries}
    \cup {Request("GET", query, Undef) : query \in GetQueries}
    \cup {Request("FIND", query, Undef) : query \in FindQueries}
    \cup {Request("LIST", query, Undef) : query \in ListQueries}

\* the first storage call of the handler of request p rejects (the connect
\* of getClient or the Redis command): the handler's catch block answers.
\* The identifiers handlePost drew are dropped unseen.
firstCallFails(p) ==
  /\ Arrives(p)
  /\ \E req \in Requests :
        /\ ReachesBackend(req)
        /\ Send(p, req, catchStatus(req.method), catchError(req.method), "throw")
  /\ UNCHANGED <<kv, sets, nextUuid, created, mutated, deleted, issued>>

\* ------------------------------------------------------------ specification
\* a step of the handler p
Step(p) ==
  \/ \E body \in NewBodies : handlePost(p, body)
  \/ create_sAdd(p)
  \/ \E r \in PutRequests : handlePut(p, r.query, r.body)
  \/ put_validate(p)
  \/ update_findById(p)
  \/ update_set(p)
  \/ put_respond(p)
  \/ \E query \in DeleteQueries : handleDelete(p, query)
  \/ delete_validate(p)
  \/ delete_findById(p)
  \/ delete_del(p)
  \/ delete_sRem(p)
  \/ \E query \in GetQueries : handleGet(p, query)
  \/ \E query \in FindQueries : handleFindByRSSItem(p, query)
  \/ findByRSSItem_get(p)
  \/ \E query \in ListQueries : handleList(p, query)
  \/ getTotalCount(p)
  \/ findAll_get(p)
  \/ firstCallFails(p)
  \/ backendFails(p)

\* the client receives the response the last step sent, and learns the
\* update token it carries
Receive ==
  /\ resp # NoResp
  /\ resp' = NoResp
  /\ issued' = issued \cup
       (IF resp.method \in {"POST", "PUT"} /\ resp.status = 200
          THEN {Get(resp.json, "updateToken").v} ELSE {})
  /\ UNCHANGED <<kv, sets, nextUuid, proc, created, mutated, deleted, lastToken,
                 used, failures, updates, canon, client, ops, call, pages, validation, sequential>>

\* ------------------------------------------------------- canonicalizeJSON
\* a JSON object as JavaScript holds it: its properties, and its keys in
\* insertion order, the order Object.keys lists them in
OrdObj(keys, f) == [t |-> "object", keys |-> keys, v |-> f]

\* JSON.stringify of a value that is not an object
JSONstringifyValue(x) ==
  CASE x.t = "number" -> ToString(x.v)
    [] x.t = "string" -> "\"" \o x.v \o "\""
    [] x.t = "boolean" -> IF x.v THEN "true" ELSE "false"
    [] OTHER -> x.t

\* the UTF-16 code unit of the one-letter keys of the model
CodeUnit == [a |-> 97, z |-> 122]

\* a sort that leaves the keys in insertion order
sortNone(keys) == keys

RECURSIVE Insert(_, _)
Insert(key, sorted) ==
  IF sorted = <<>> THEN <<key>>
  ELSE IF CodeUnit[key] < CodeUnit[Head(sorted)] THEN <<key>> \o sorted
  ELSE <<Head(sorted)>> \o Insert(key, Tail(sorted))

\* Array.prototype.sort() without a comparator: ascending code units
RECURSIVE sort(_)
sort(keys) ==
  IF keys = <<>> THEN <<>> ELSE Insert(Head(keys), sort(Tail(keys)))

\* elements.join(separator)
RECURSIVE join(_, _)
join(elements, separator) ==
  IF elements = <<>> THEN ""
  ELSE IF Len(elements) = 1 THEN elements[1]
  ELSE elements[1] \o separator \o join(Tail(elements), separator)

RECURSIVE canonicalizeJSON(_)
canonicalizeJSON(obj) ==
  IF obj.t = "null" THEN "null"
  ELSE IF obj.t \notin {"object", "array"} THEN JSONstringifyValue(obj)
  ELSE IF obj.t = "array"
    THEN LET elements == [i \in DOMAIN obj.v |-> canonicalizeJSON(obj.v[i])]
         IN "[" \o join(elements, ",") \o "]"
  ELSE LET sortedKeys == sort(obj.keys)
           pairs == [i \in DOMAIN sortedKeys |->
                       "\"" \o sortedKeys[i] \o "\":" \o canonicalizeJSON(obj.v[sortedKeys[i]])]
       IN "{" \o join(pairs, ",") \o "}"

\* the nesting depth of the values canonicalizeJSON is called with
MaxDepth == 2

Leaves == {Num(1), Num(2)}
KeyOrders == {<<"a", "z">>, <<"z", "a">>}

\* JSON values nested at most d deep: numbers, objects with the keys a
\* and z in either insertion order, and arrays of two elements
RECURSIVE JSONValues(_)
JSONValues(d) ==
  IF d = 0 THEN Leaves
  ELSE LET V == JSONValues(d - 1)
       IN Leaves
            \cup {OrdObj(ks, [k \in {"a", "z"} |-> IF k = "a" THEN e ELSE l]) :
                    ks \in KeyOrders, e \in V, l \in Leaves}
            \cup {Arr(<<e, l>>) : e \in V, l \in Leaves}
            \cup {Arr(<<l, e>>) : e \in V, l \in Leaves}

\* a caller canonicalizes two values, as a signer and a verifier do
canonicalize ==
  /\ canon.stage = "input"
  /\ canon' = [canon EXCEPT !.stage = "output",
                            !.cx = canonicalizeJSON(canon.x),
                            !.cy = canonicalizeJSON(canon.y)]
  /\ UNCHANGED <<kv, sets, nextUuid, proc, resp, created, mutated, deleted, issued,
                 lastToken, used, failures, updates, client, ops, call, pages, validation, sequential>>

InitCanon ==
  /\ Start
  /\ Warm
  /\ sequential = TRUE
  /\ canon \in {[stage |-> "input", x |-> x, y |-> y, cx |-> "", cy |-> ""] :
                  x \in JSONValues(MaxDepth), y \in JSONValues(MaxDepth)}

NextCanon == canonicalize

\* the calls of canonicalizeJSON, which no request handler makes
SpecCanon == InitCanon /\ [][NextCanon]_vars

\* -------------------------------------------------------------- getClient
\* the storage operations of the cold start, and the number of commands
\* each sends on the client getClient gave it
Commands == [findById |-> 1, create |-> 2]

\* getClient and the commands of the cold start leave the rest alone
ClientFrame ==
  UNCHANGED <<kv, sets, nextUuid, proc, resp, created, mutated, deleted, issued,
              lastToken, used, failures, updates, canon, call, pages, validation, sequential>>

\* the operation of p calls getClient: the first caller creates the
\* client, stores it in this.client and awaits connect(); a caller that
\* finds this.client set gets it back at once
getClient(p, op) ==
  /\ ClientFrame
  /\ ops[p].pc = "idle"
  /\ IF client.state = "null"
     THEN /\ client' = [made |-> client.made + 1, state |-> "connecting"]
          /\ ops' = [ops EXCEPT ![p] = [pc |-> "connect", op |-> op,
                                        left |-> Commands[op], early |-> FALSE]]
     ELSE /\ client' = client
          /\ ops' = [ops EXCEPT ![p] = [pc |-> "command", op |-> op,
                                        left |-> Commands[op], early |-> FALSE]]

\* connect() resolves for the caller that awaits it
connect_resolves(p) ==
  /\ ClientFrame
  /\ ops[p].pc = "connect"
  /\ client' = [client EXCEPT !.state = "open"]
  /\ ops' = [ops EXCEPT ![p].pc = "command"]

\* connect() rejects: the operation throws, and this.client keeps the
\* client that never connected
connect_rejects(p) ==
  /\ ClientFrame
  /\ ops[p].pc = "connect"
  /\ client' = [client EXCEPT !.state = "closed"]
  /\ ops' = [ops EXCEPT ![p].pc = "thrown"]

\* the operation sends its next command on the client it was given
command(p) ==
  /\ ClientFrame
  /\ ops[p].pc = "command"
  /\ ops' = [ops EXCEPT ![p].pc = "reply",
                        ![p].early = @ \/ client.state # "open"]
  /\ client' = client

\* the reply of the command: it comes once the client is connected
reply(p) ==
  /\ ClientFrame
  /\ ops[p].pc = "reply"
  /\ client.state = "open"
  /\ ops' = [ops EXCEPT ![p].left = @ - 1,
                        ![p].pc = IF ops[p].left = 1 THEN "returned" ELSE "command"]
  /\ client' = client

\* the command is rejected by a client that is closed
reply_rejects(p) ==
  /\ ClientFrame
  /\ ops[p].pc = "reply"
  /\ client.state = "closed"
  /\ ops' = [ops EXCEPT ![p].pc = "thrown"]
  /\ client' = client

InitClient ==
  /\ Start
  /\ sequential = FALSE
  /\ canon = NoCanon
  /\ client = [made |-> 0, state |-> "null"]
  /\ ops = [p \in Procs |-> NoOp]

NextClient ==
  \E p \in Procs :
    \/ \E op \in DOMAIN Commands : getClient(p, op)
    \/ connect_resolves(p)
    \/ connect_rejects(p)
    \/ command(p)
    \/ reply(p)
    \/ reply_rejects(p)

\* the first storage operations of a process, before and while its
\* client connects
SpecClient == InitClient /\ [][NextClient]_vars

\* -------------------------------------------------- storage.create, called
\* a stored record
Record(id, updateToken, pair) ==
  Obj([id |-> Str(id), jpt |-> JPT1, type |-> Str("bitcoin-lightning"),
       updateToken |-> Str(updateToken),
       podcastGuid |-> pair[1], rssItemGuid |-> pair[2]])

\* the store after storage.create(metadata) has run to its end on it
Created(store, metadata) ==
  [kv |-> RedisSet(store.kv, getPaymentKey(Get(metadata, "id").v), JSONstringify(metadata)),
   sets |-> IF HasRSSItem(metadata)
              THEN RedisSAdd(store.sets,
                             getRSSIndexKey(Get(metadata, "podcastGuid"),
                                            Get(metadata, "rssItemGuid")),
                             Get(metadata, "id").v)
              ELSE store.sets]

Pairs == {<<Str("a"), Str("c")>>, <<Str("x"), Str("y")>>, <<Undef, Undef>>}

\* the stores storage.create is called on: empty, or left by one or two
\* earlier creates
Stores ==
  LET empty == [kv |-> EmptyMap, sets |-> EmptyMap]
      one == {Created(empty, Record(UUID(1), UUID(2), pair)) : pair \in Pairs}
      two == {Created(st, Record(UUID(3), UUID(4), pair)) : st \in one, pair \in Pairs}
  IN {empty} \cup one \cup two

\* the records storage.create is called with: the id may be that of a
\* stored record
Arguments ==
  {Record(id, UUID(6), pair) : id \in {UUID(1), UUID(3), UUID(5)}, pair \in Pairs}

CreateFrame ==
  UNCHANGED <<nextUuid, proc, resp, created, mutated, deleted, issued, lastToken, used,
              failures, updates, canon, client, ops, pages, validation, sequential>>

\* client.set(key, JSON.stringify(metadata)) of storage.create
storage_create_set ==
  /\ call.pc = "set"
  /\ kv' = RedisSet(kv, getPaymentKey(Get(call.metadata, "id").v), JSONstringify(call.metadata))
  /\ sets' = sets
  /\ call' = [call EXCEPT !.pc = IF HasRSSItem(call.metadata) THEN "sAdd" ELSE "returned"]
  /\ CreateFrame

\* client.sAdd(indexKey, metadata.id) of storage.create
storage_create_sAdd ==
  /\ call.pc = "sAdd"
  /\ sets' = RedisSAdd(sets, getRSSIndexKey(Get(call.metadata, "podcastGuid"),
                                            Get(call.metadata, "rssItemGuid")),
                       Get(call.metadata, "id").v)
  /\ kv' = kv
  /\ call' = [call EXCEPT !.pc = "returned"]
  /\ CreateFrame

InitCreate ==
  /\ \E st \in Stores : \E metadata \in Arguments :
       /\ kv = st.kv
       /\ sets = st.sets
       /\ call = [pc |-> "set", metadata |-> metadata, before |-> st]
  /\ nextUuid = 1
  /\ proc = [p \in Procs |-> NotArrived]
  /\ resp = NoResp
  /\ created = {} /\ mutated = {} /\ deleted = {} /\ issued = {}
  /\ lastToken = EmptyMap
  /\ used = {}
  /\ failures = 0
  /\ updates = [called |-> {}, written |-> {}]
  /\ canon = NoCanon
  /\ pages = {}
  /\ validation = NoValidation
  /\ Warm
  /\ sequential = TRUE

NextCreate == storage_create_set \/ storage_create_sAdd

\* storage.create called with any record, on any store earlier creates
\* have left
SpecCreate == InitCreate /\ [][NextCreate]_vars

\* ------------------------------------------------- validating a new body
\* the object with the key k when v is a value, with no key when v is undefined
Field(k, v) == IF v = Undef THEN EmptyMap ELSE k :> v

TypeValues ==
  {Undef, Null, Str("bitcoin-lightning"), Str("monero"), Str("dogecoin"), Str(""), Num(1)}

MetadataValues ==
  {Undef, Null, Obj(EmptyMap), Obj([payment_hash |-> Str("abc")]), Arr(<<>>), Arr(<<Num(1)>>),
   Str("x"), Str(""), Num(0), Num(5), Bool(FALSE), Bool(TRUE)}

OptionalValues == {Undef, Null, Str("s"), Str(""), Num(7)}

\* parsed JSON objects a client can send as the body of a create request
MetadataBodies ==
  {Obj(Field("type", type) @@ Field("metadata", metadata) @@ Field("signature", signature)
         @@ Field("podcastGuid", podcastGuid) @@ Field("rssItemGuid", rssItemGuid)) :
     type \in TypeValues, metadata \in MetadataValues, signature \in OptionalValues,
     podcastGuid \in OptionalValues, rssItemGuid \in OptionalValues}

\* the validator is a pure function: it reads its argument only
validate ==
  /\ validation.stage = "input"
  /\ validation' = [validation EXCEPT
                      !.stage = "output",
                      !.result = signature_utils_validatePaymentMetadataNew(validation.body)]
  /\ UNCHANGED <<kv, sets, nextUuid, proc, resp, created, mutated, deleted, issued, lastToken,
                 used, failures, updates, canon, client, ops, call, pages, sequential>>

InitValidate ==
  /\ kv = EmptyMap /\ sets = EmptyMap
  /\ nextUuid = 1
  /\ proc = [p \in Procs |-> NotArrived]
  /\ resp = NoResp
  /\ created = {} /\ mutated = {} /\ deleted = {} /\ issued = {}
  /\ lastToken = EmptyMap
  /\ used = {}
  /\ failures = 0
  /\ updates = [called |-> {}, written |-> {}]
  /\ canon = NoCanon
  /\ call = NoCall
  /\ pages = {}
  /\ Warm
  /\ sequential = TRUE
  /\ validation \in {[stage |-> "input", body |-> body, result |-> Undef] :
                       body \in MetadataBodies}

NextValidate == validate

\* the calls of the validator of the metadata format
SpecValidate == InitValidate /\ [][NextValidate]_vars

\* ------------------------------------------------ paging through the list
\* a store that earlier creates have left and that no request changes
InitPages ==
  /\ \E st \in Stores : kv = st.kv /\ sets = st.sets
  /\ nextUuid = 1
  /\ proc = [p \in Procs |-> NotArrived]
  /\ resp = NoResp
  /\ created = {} /\ mutated = {} /\ deleted = {} /\ issued = {}
  /\ lastToken = EmptyMap
  /\ used = {}
  /\ failures = 0
  /\ updates = [called |-> {}, written |-> {}]
  /\ canon = NoCanon
  /\ call = NoCall
  /\ pages = {}
  /\ validation = NoValidation
  /\ Warm
  /\ sequential = TRUE

\* clients that only list, one request after the other
NextPages ==
  \/ Receive
  \/ \E p \in Procs :
       \/ \E query \in ListQueries : handleList(p, query)
       \/ getTotalCount(p)
       \/ findAll_get(p)

SpecPages == InitPages /\ [][NextPages]_vars

\* requests are handled independently and may overlap
Next ==
  \/ Receive
  \/ \E p \in Procs : Step(p)

Spec == Init /\ [][Next]_vars

\* no request is in flight
Quiescent == \A p \in Procs : ~InFlight(p)

\* a sequential run: a request arrives only when no handler is in flight
SpecSeq == InitSeq /\ [][Next]_vars

\* the runs of both kinds
InitAny == Start /\ sequential \in BOOLEAN /\ canon = NoCanon /\ Warm
SpecAny == InitAny /\ [][Next]_vars

\* the await the handler of p is suspended at settles: the backend call
\* returns or throws, and the handler runs up to its next await
Resumes(p) == InFlight(p) /\ Step(p)

\* overlapping requests whose backend calls all return and whose
\* responses are all delivered
SpecLive ==
  /\ Init
  /\ [][Next]_vars
  /\ WF_vars(Receive)
  /\ \A p \in Procs : WF_vars(Resumes(p))

\* ================================================================== claims
\* the record id is stored
Live(id) == findById(kv, id) # Null

\* the create input carries a non-empty podcastGuid and rssItemGuid
BothSet(input) == Truthy(Get(input, "podcastGuid")) /\ Truthy(Get(input, "rssItemGuid"))

\* the index bucket of the pair of a create input
BucketKey(input) == getRSSIndexKey(Get(input, "podcastGuid"), Get(input, "rssItemGuid"))

\* the id a PUT or DELETE response is about
TargetId(r) == IF r.method = "PUT" THEN Get(r.body, "id").v ELSE Get(r.query, "id").v

\* C1: token rotation.  Right after a PUT has answered 200 the token the
\* request presented no longer validates and the token of the response does.
C1_TokenRotation ==
  (resp.method = "PUT" /\ resp.status = 200) =>
     /\ ~validateUpdateToken(kv, TargetId(resp), Get(resp.query, "updateToken"))
     /\ validateUpdateToken(kv, TargetId(resp), Get(resp.json, "updateToken"))

\* C2: in every quiescent state every live record created with both guids
\* is in the bucket of its pair and in no other bucket.
C2_IndexedInOwnBucket ==
  Quiescent =>
    \A r \in created :
      (BothSet(r.input) /\ Live(r.id)) =>
         /\ r.id \in RedisSMembers(sets, BucketKey(r.input))
         /\ \A k \in DOMAIN sets \ {BucketKey(r.input)} : r.id \notin sets[k]

\* C3: in a sequential run findByRSSItem of a record's pair contains the
\* record right after its create has returned, and does not contain it
\* right after delete(id) has returned true.
C3_IndexConsistency ==
  /\ (resp.method = "POST" /\ resp.status = 200 /\ BothSet(resp.body)) =>
        \E m \in findByRSSItem(kv, sets, Get(resp.body, "podcastGuid"),
                               Get(resp.body, "rssItemGuid")) :
           Get(m, "id") = Get(resp.json, "id")
  /\ (resp.method = "DELETE" /\ resp.ret = "true") =>
        \A r \in created :
           (r.id = TargetId(resp) /\ BothSet(r.input)) =>
              \A m \in findByRSSItem(kv, sets, Get(r.input, "podcastGuid"),
                                     Get(r.input, "rssItemGuid")) :
                 Get(m, "id") # Str(r.id)

C3_Witness ==
  /\ resp.method = "DELETE" /\ resp.ret = "true"
  /\ \E r \in created : r.id = TargetId(resp) /\ BothSet(r.input)

\* C4: a record created without a non-empty podcastGuid and rssItemGuid is
\* in no index bucket, in any reachable state.
C4_UnindexedNeverInBucket ==
  \A r \in created :
    ~BothSet(r.input) => \A k \in DOMAIN sets : r.id \notin sets[k]

C4_Witness ==
  \E r \in created : ~BothSet(r.input) /\ r.id \in mutated /\ Live(r.id) /\ DOMAIN sets # {}

\* C5: in a sequential run, right after delete(id) has returned true the
\* record is gone and stays gone: findById(id) is null, and a second
\* DELETE of the id that the backend serves is answered not-found.
C5_DeleteTerminal ==
  /\ (resp.method = "DELETE" /\ resp.ret = "true") => findById(kv, TargetId(resp)) = Null
  /\ \A id \in deleted : findById(kv, id) = Null
  /\ (/\ resp.method = "DELETE" /\ resp.ret \notin {"true", "throw"}
      /\ TypeOf(Get(resp.query, "id")) = "string"
      /\ TargetId(resp) \in deleted) =>
        /\ resp.status = 404
        /\ resp.json = sendError("Payment metadata not found")

C5_Witness ==
  /\ resp.method = "DELETE" /\ resp.status = 404
  /\ TypeOf(Get(resp.query, "id")) = "string"
  /\ TargetId(resp) \in deleted

\* the handler of p is about to check a token that differs from the token
\* stored for its target, which exists
WrongTokenAt(p) ==
  /\ resp = NoResp
  /\ proc[p].pc \in {"put_validate", "delete_validate"}
  /\ Live(TargetId(proc[p]))
  /\ Get(findById(kv, TargetId(proc[p])), "updateToken")
       # Get(proc[p].query, "updateToken")

\* C6: a PUT or DELETE whose token differs from the stored token of its
\* existing target is answered with an error and writes nothing: the
\* error is "Invalid updateToken" whenever the backend serves the lookup.
C6_WrongTokenRejected ==
  [][\A p \in Procs :
       (WrongTokenAt(p) /\ proc'[p] # proc[p]) =>
          /\ resp'.proc = p
          /\ resp'.status >= 400
          /\ resp'.ret # "throw" =>
                resp'.status = 400 /\ resp'.json = sendError("Invalid updateToken")
          /\ kv' = kv
          /\ sets' = sets]_vars

C6_Witness ==
  /\ resp.method \in {"PUT", "DELETE"}
  /\ resp.json = sendError("Invalid updateToken")
  /\ Live(TargetId(resp))

\* the payload object o has no updateToken field
NoUpdateToken(o) == "updateToken" \notin DOMAIN o.v

\* C7: no read response carries an updateToken field.
C7_ReadsHideToken ==
  /\ (resp.method = "GET" /\ resp.status = 200) => NoUpdateToken(resp.json)
  /\ (resp.method = "FIND" /\ resp.status = 200) =>
        \A i \in DOMAIN resp.json.v : NoUpdateToken(resp.json.v[i])
  /\ (resp.method = "LIST" /\ resp.status = 200) =>
        \A i \in DOMAIN Get(resp.json, "data").v : NoUpdateToken(Get(resp.json, "data").v[i])

C7_Witness ==
  /\ resp.method = "FIND" /\ resp.status = 200
  /\ \E i \in DOMAIN resp.json.v : Get(resp.json.v[i], "id").v \in mutated

\* C8: round trip.  A record that was created and not updated or deleted
\* since reads back with the type, metadata, signature, podcastGuid and
\* rssItemGuid of the create input.
C8_RoundTrip ==
  \A r \in created :
    r.id \notin mutated =>
      \A f \in {"type", "metadata", "signature", "podcastGuid", "rssItemGuid"} :
        Get(findById(kv, r.id), f) = Get(r.input, f)

\* the step is taken by the PUT handler of p
PutStep(p) ==
  /\ proc'[p] # proc[p]
  /\ proc[p].method = "PUT" \/ proc'[p].method = "PUT" \/ (resp'.proc = p /\ resp'.method = "PUT")

\* C9: no step of a PUT, and so no update, changes any index bucket.
C9_UpdateKeepsIndex ==
  [][\A p \in Procs : PutStep(p) => sets' = sets]_vars

C9_Witness ==
  /\ resp.method = "PUT" /\ resp.ret = "true"
  /\ \E k \in DOMAIN sets : TargetId(resp) \in sets[k]

\* C10: every stored record carries its own id and the podcastGuid and
\* rssItemGuid it was created with, so a PUT keeps all three whatever the
\* request body says.
C10_PutKeepsIdAndPair ==
  \A r \in created :
    Live(r.id) =>
      /\ Get(findById(kv, r.id), "id") = Str(r.id)
      /\ Get(findById(kv, r.id), "podcastGuid") = Get(r.input, "podcastGuid")
      /\ Get(findById(kv, r.id), "rssItemGuid") = Get(r.input, "rssItemGuid")

C10_Witness ==
  /\ resp.method = "PUT" /\ resp.ret = "true"
  /\ \E r \in created :
       /\ r.id = TargetId(resp)
       /\ Get(resp.body, "podcastGuid") # Get(r.input, "podcastGuid")
       /\ Live(r.id)

\* the identifiers uuidv4 can have handed out, and one it never does
AllIds == {UUID(n) : n \in 0..MaxUuid}

\* the create of the record id has not answered yet
CreateInFlight(id) ==
  \E p \in Procs : proc[p].pc = "create_sAdd" /\ Get(proc[p].metadata, "id") = Str(id)

\* the SET of an update of the record id has run and its handler has
\* not answered yet
UpdateInFlight(id) ==
  \E p \in Procs : proc[p].pc = "put_respond" /\ Get(proc[p].metadata, "id") = Str(id)

\* C11: for every live record whose create has ended, exactly one token
\* validates, and it is the token of the most recent 200 response of a
\* POST or PUT for the record.
C11_OneLiveToken ==
  \A r \in created :
    (Live(r.id) /\ ~CreateInFlight(r.id) /\ ~UpdateInFlight(r.id)) =>
       /\ r.id \in DOMAIN lastToken
       /\ \A t \in AllIds :
            validateUpdateToken(kv, r.id, Str(t)) <=> t = lastToken[r.id]

\* C12: validateUpdateToken(id, token) is true exactly when the key of id
\* is stored and the stored record's updateToken is the token, so it is
\* false for an absent id; the handlers' validateUpdateToken steps write
\* nothing.
C12_ValidateIffStoredToken ==
  /\ [](\A id \in AllIds : \A t \in AllIds :
          validateUpdateToken(kv, id, Str(t)) <=>
            /\ getPaymentKey(id) \in DOMAIN kv
            /\ kv[getPaymentKey(id)].json.v["updateToken"] = Str(t))
  /\ [][\A p \in Procs :
          (proc[p].pc \in {"put_validate", "delete_validate"} /\ proc'[p] # proc[p]) =>
             kv' = kv /\ sets' = sets]_vars

C12_Witness ==
  /\ \E p \in Procs : proc[p].pc \in {"update_findById", "delete_findById"}
  /\ \E id \in AllIds : \E t \in AllIds :
        Live(id) /\ validateUpdateToken(kv, id, Str(t)) /\ Str(t) \in TokenInputs

\* C13: a PUT or DELETE whose storage.update or storage.delete returned
\* false is answered not-found.
C13_AbsentTargetNotFound ==
  (resp.method \in {"PUT", "DELETE"} /\ resp.ret = "false") => resp.status = 404

\* C14: in a sequential run, when a create or a delete answers with a
\* failure because its index call failed, the record store is as it was
\* before the operation: the record of a failed create is not stored, the
\* record of a failed delete is still stored.
C14_NoPartialSuccess ==
  [][\A p \in Procs :
       (resp'.proc = p /\ resp'.ret = "throw") =>
          /\ proc[p].pc = "create_sAdd" =>
                getPaymentKey(Get(proc[p].metadata, "id").v) \notin DOMAIN kv'
          /\ proc[p].pc = "delete_sRem" =>
                getPaymentKey(Get(proc[p].query, "id").v) \in DOMAIN kv']_vars

\* C15: storage.update for an id that is not stored returns false and
\* writes nothing (or fails in the backend, and writes nothing).
C15_UpdateAbsentNoWrite ==
  [][\A p \in Procs :
       (/\ proc[p].pc = "update_findById"
        /\ ~Live(Get(proc[p].metadata, "id").v)
        /\ proc'[p] # proc[p]) =>
          /\ resp'.proc = p
          /\ resp'.ret \in {"false", "throw"}
          /\ kv' = kv
          /\ sets' = sets]_vars

C15_Witness ==
  /\ resp.method = "PUT" /\ resp.ret = "false"
  /\ ~Live(TargetId(resp))
  /\ TargetId(resp) \in mutated

\* the value is present and is not a string
NonString(x) == x # Undef /\ TypeOf(x) # "string"

\* the record fields of a create or update body break the validation
\* contract: type outside the enum, metadata that is not a plain object,
\* a signature, podcastGuid or rssItemGuid that is not a string
BadRecord(body) ==
  \/ ~isValidPaymentType(Get(body, "type"))
  \/ Get(body, "metadata") # Undef /\ Get(body, "metadata").t # "object"
  \/ NonString(Get(body, "signature"))
  \/ NonString(Get(body, "podcastGuid"))
  \/ NonString(Get(body, "rssItemGuid"))

\* the request breaks the validation contract
InvalidInput(req) ==
  CASE req.method = "POST" -> BadRecord(req.body)
    [] req.method = "PUT" ->
         \/ BadRecord(req.body)
         \/ ~isValidUUID(Get(req.body, "id"))
         \/ ~isValidUUID(Get(req.body, "updateToken"))
         \/ ~isValidUUID(Get(req.query, "updateToken"))
    [] req.method = "LIST" ->
         \/ isNaN(limitOf(req.query)) \/ limitOf(req.query).v < 1 \/ limitOf(req.query).v > 1000
         \/ isNaN(offsetOf(req.query)) \/ offsetOf(req.query).v < 0
    [] OTHER -> FALSE

\* C16: a create, update or list request that breaks the validation
\* contract is answered with an error by the step it arrives in, and that
\* step writes nothing.
C16_InvalidInputRejected ==
  [][\A p \in Procs :
       (proc[p].pc = "new" /\ proc'[p].pc # "new") =>
          LET req == IF resp'.proc = p THEN resp' ELSE proc'[p]
          IN InvalidInput(req) =>
               /\ resp'.proc = p
               /\ resp'.status >= 400
               /\ kv' = kv
               /\ sets' = sets]_vars

\* C17: a response to a backend failure is the generic internal failure.
C17_BackendFailureGeneric ==
  resp.ret = "throw" =>
    resp.status = 500 /\ resp.json = sendError("Internal server error")

\* the number of ids for which findById succeeds
LiveCount == Cardinality({id \in AllIds : Live(id)})

\* C18: in a quiescent state getTotalCount() is the number of ids for
\* which findById succeeds.
C18_TotalCountIsLiveCount ==
  Quiescent => totalCountOf(kv, sets) = LiveCount

C18_Witness ==
  /\ Quiescent
  /\ totalCountOf(kv, sets) = 1
  /\ deleted # {}
  /\ DOMAIN sets # {}

\* the fields of a 200 response of the list handler
IsList(r) == r.method = "LIST" /\ r.status = 200
PageLen(r) == Len(Get(r.json, "data").v)
LimitIn(r) == Get(Get(r.json, "pagination"), "limit").v
OffsetIn(r) == Get(Get(r.json, "pagination"), "offset").v
TotalIn(r) == Get(Get(r.json, "pagination"), "total").v
HasMoreIn(r) == Get(Get(r.json, "pagination"), "hasMore").v

Min(a, b) == IF a < b THEN a ELSE b
Max(a, b) == IF a < b THEN b ELSE a

\* C19: a page of findAll never holds more than limit records, and in a
\* sequential run it holds exactly min(limit, max(0, count - offset)).
C19_PageLength ==
  IsList(resp) =>
    /\ PageLen(resp) <= LimitIn(resp)
    /\ sequential =>
         PageLen(resp) = Min(LimitIn(resp), Max(0, LiveCount - OffsetIn(resp)))

C19_Witness ==
  /\ IsList(resp) /\ sequential
  /\ PageLen(resp) = LimitIn(resp)
  /\ LiveCount > LimitIn(resp)

\* C20: hasMore of a list response is offset + limit < total, and in a
\* sequential run it is true exactly when a live record lies beyond the
\* page.
C20_HasMore ==
  IsList(resp) =>
    /\ HasMoreIn(resp) = (OffsetIn(resp) + LimitIn(resp) < TotalIn(resp))
    /\ sequential =>
         (HasMoreIn(resp) <=> LiveCount > OffsetIn(resp) + LimitIn(resp))

C20_Witness ==
  /\ IsList(resp) /\ sequential
  /\ HasMoreIn(resp)
  /\ PageLen(resp) >= 1

\* ------------------------------------------------------------------- C21
\* a find-by-episode response the handler produced itself for a query
\* that names a pair
IsFind(r) == r.method = "FIND" /\ r.ret # "throw" /\ r.status # 400

\* what storage.findByRSSItem yields for the pair of the response r when
\* nothing runs between its awaits
LookupOf(r) ==
  findByRSSItem(kv, sets, Get(r.query, "podcastGuid"), Get(r.query, "rssItemGuid"))

Elements(r) == {r.json.v[i] : i \in DOMAIN r.json.v}

\* C21: a find-by-episode request is answered 404 or with a non-empty
\* array; in a sequential run it is answered 404 exactly when the lookup
\* of the pair yields no record, and otherwise with the array of the read
\* shapes of all the records the lookup yields, each once.
C21_FindAnswersLookup ==
  IsFind(resp) =>
    /\ resp.status \in {200, 404}
    /\ resp.status = 404 => resp.json = ToJson(sendError("RSS Item not found"))
    /\ resp.status = 200 => resp.json.t = "array" /\ Len(resp.json.v) >= 1
    /\ sequential =>
         /\ resp.status = 404 <=> LookupOf(resp) = {}
         /\ resp.status = 200 =>
              /\ Elements(resp) = {Strip(PublicFields(m)) : m \in LookupOf(resp)}
              /\ Len(resp.json.v) = Cardinality(LookupOf(resp))

C21_Witness ==
  /\ IsFind(resp) /\ sequential
  /\ resp.status = 200
  /\ Len(resp.json.v) = 2

\* ------------------------------------------------------------------- C22
\* x and y are the same JSON value but for the order of the keys of
\* their objects, at any depth
RECURSIVE SameUpToKeyOrder(_, _)
SameUpToKeyOrder(x, y) ==
  /\ x.t = y.t
  /\ CASE x.t = "object" ->
            /\ {x.keys[i] : i \in DOMAIN x.keys} = {y.keys[i] : i \in DOMAIN y.keys}
            /\ \A i \in DOMAIN x.keys : SameUpToKeyOrder(x.v[x.keys[i]], y.v[x.keys[i]])
       [] x.t = "array" ->
            /\ Len(x.v) = Len(y.v)
            /\ \A i \in DOMAIN x.v : SameUpToKeyOrder(x.v[i], y.v[i])
       [] OTHER -> x.v = y.v

\* C22: canonicalizeJSON gives one and the same string for two values
\* that differ only in the order of the keys of their objects, at every
\* nesting level; values that differ otherwise, in the order of the
\* elements of an array for one, give different strings.
C22_KeyOrderInvariant ==
  canon.stage = "output" =>
    /\ SameUpToKeyOrder(canon.x, canon.y) => canon.cx = canon.cy
    /\ ~SameUpToKeyOrder(canon.x, canon.y) => canon.cx # canon.cy

C22_Witness ==
  /\ canon.stage = "output"
  /\ SameUpToKeyOrder(canon.x, canon.y)
  /\ canon.x.t = "object"
  /\ canon.x.keys # canon.y.keys
  /\ canon.x.v["a"].t = "object"
  /\ canon.x.v["a"].keys # canon.y.v["a"].keys
  /\ canon.cx = canon.cy

\* ------------------------------------------------------------------- C23
\* C23: once storage.delete has returned true for an id, no state holds
\* a stored record for the id, whatever else was in flight.
C23_DeletePermanent ==
  \A id \in deleted : ~Live(id)

\* ------------------------------------------------------------------- C24
\* C24: of the PUT and DELETE requests that present one and the same
\* token for one and the same record, at most one is answered with
\* success.
C24_TokenSingleUse ==
  \A a, b \in used : (a.id = b.id /\ a.token = b.token) => a.proc = b.proc

\* ------------------------------------------------------------------- C25
\* C25: when a create or a PUT is answered with success, the token of
\* the response is the token stored with the record at that moment.
C25_ReturnedTokenIsStored ==
  (resp.method \in {"POST", "PUT"} /\ resp.status = 200) =>
    LET id == Get(resp.json, "id").v
    IN /\ Live(id)
       /\ Get(findById(kv, id), "updateToken") = Get(resp.json, "updateToken")

\* ------------------------------------------------------------------- C26
\* the id is a member of some index bucket
InBucket(id) == \E k \in DOMAIN sets : id \in sets[k]

\* C26: while a storage.delete is between its two writes, the id it
\* deletes is in an index bucket only if its record is still stored.
C26_DeleteIndexFirst ==
  \A p \in Procs :
    proc[p].pc = "delete_sRem" =>
      LET id == Get(proc[p].query, "id").v
      IN InBucket(id) => Live(id)

\* ------------------------------------------------------------------- C27
\* C27: while a storage.create is between its two writes, the record is
\* stored and its id is in no index bucket yet; so the id of a create in
\* flight is never in a bucket without a stored record.
C27_CreatePrimaryFirst ==
  \A p \in Procs :
    proc[p].pc = "create_sAdd" =>
      LET id == Get(proc[p].metadata, "id").v
      IN /\ Live(id)
         /\ ~InBucket(id)
         /\ findById(kv, id) = proc[p].metadata

C27_Witness ==
  \E p \in Procs :
    /\ proc[p].pc = "create_sAdd"
    /\ Live(Get(proc[p].metadata, "id").v)
    /\ \E q \in Procs \ {p} : InFlight(q)

\* ------------------------------------------------------------------- C28
\* C28: when no request is in flight and no call to the backend has
\* failed, every id in an index bucket has a stored record.
C28_NoDanglingAtRest ==
  (Quiescent /\ ~failed) =>
    \A k \in DOMAIN sets : \A id \in sets[k] : Live(id)

\* at rest after the delete of an indexed record, with another record
\* still indexed
C28_Witness ==
  /\ Quiescent /\ ~failed
  /\ \E id \in deleted : \E r \in created : r.id = id /\ HasRSSItem(r.input)
  /\ \E k \in DOMAIN sets : \E id \in sets[k] : Live(id)

\* ------------------------------------------------------------------- C29
\* C29: a stored record that a storage.update has written is, whole, one
\* of the records storage.update was called with for that id, as its JSON
\* text reads: never a mixture of the fields of two of them, or of one
\* and the prior record.
C29_UpdateWritesWhole ==
  \A id \in updates.written :
    Live(id) =>
      findById(kv, id) \in
        {JSONparse(JSONstringify(r)) : r \in {c \in updates.called : Get(c, "id") = Str(id)}}

\* two updates of one record have both written, with different types,
\* and the one that wrote first has not answered yet
C29_Witness ==
  \E p \in Procs :
    /\ proc[p].pc = "put_respond"
    /\ LET id == Get(proc[p].metadata, "id").v
       IN /\ Live(id)
          /\ findById(kv, id) # JSONparse(JSONstringify(proc[p].metadata))
          /\ \E r \in updates.called : findById(kv, id) = JSONparse(JSONstringify(r))
          /\ Get(findById(kv, id), "type") # Get(proc[p].metadata, "type")

\* ------------------------------------------------------------------- C30
\* the pairs findByRSSItem is asked for
GuidStrings == {Str("a"), Str("a:b"), Str("b:c"), Str("c")}

\* C30: every record storage.findByRSSItem(p, e) yields has p as its
\* stored podcastGuid and e as its stored rssItemGuid, for strings with
\* and without a ':'.
C30_FindExactPair ==
  \A p, e \in GuidStrings :
    \A m \in findByRSSItem(kv, sets, p, e) :
      Get(m, "podcastGuid") = p /\ Get(m, "rssItemGuid") = e

\* ------------------------------------------------------------------- C31
\* C31: createClient is called at most once, and no storage operation
\* sends a command on a client whose connect() has not completed.
C31_ConnectedClientOnly ==
  /\ client.made <= 1
  /\ \A p \in Procs : ~ops[p].early

\* ------------------------------------------------------------------- C32
\* the ids of a sequence of records
IdsOf(records) == [i \in DOMAIN records |-> Get(records[i], "id")]

\* C32: each turn of the loop of storage.findByRSSItem that no backend
\* failure ends adds the stored record of the member it fetches, or
\* nothing when the member has no stored record; it raises no error, and
\* the handler answers with the records gathered, each of them a record,
\* or with 404 when there is none.
C32_FindSkipsMissing ==
  [][\A p \in Procs :
       (proc[p].pc = "findByRSSItem_get" /\ proc'[p] # proc[p] /\ failures' = failures) =>
         LET id == Head(proc[p].pending)
             gathered == IF Live(id) THEN Append(proc[p].results, findById(kv, id))
                         ELSE proc[p].results
         IN /\ \A i \in DOMAIN gathered : gathered[i] # Null
            /\ proc'[p].pc = "findByRSSItem_get" => proc'[p].results = gathered
            /\ proc'[p].pc = "done" =>
                 /\ resp'.proc = p /\ resp'.ret # "throw"
                 /\ IF gathered = <<>>
                    THEN resp'.status = 404
                    ELSE /\ resp'.status = 200
                         /\ IdsOf(resp'.json.v) = IdsOf(gathered)]_vars

\* the answer to a find whose only bucket member lost its record to a
\* delete that has not removed the member yet
C32_Witness ==
  /\ resp.method = "FIND" /\ resp.status = 404 /\ resp.ret # "throw" /\ ~failed
  /\ \E q \in Procs :
       /\ proc[q].pc = "delete_sRem"
       /\ ~Live(Get(proc[q].query, "id").v)
       /\ Get(proc[q].query, "id").v \in
            RedisSMembers(sets, getRSSIndexKey(Get(resp.query, "podcastGuid"),
                                               Get(resp.query, "rssItemGuid")))

\* ------------------------------------------------------------------- C33
\* the id a PUT or DELETE request names
TargetOf(r) == IF r.method = "PUT" THEN Get(r.body, "id") ELSE Get(r.query, "id")

NotFoundResp(r) ==
  /\ r.method \in {"PUT", "DELETE"}
  /\ r.status = 404
  /\ r.json = ToJson(sendError("Payment metadata not found"))

InvalidTokenResp(r) ==
  /\ r.method \in {"PUT", "DELETE"}
  /\ r.status = 400
  /\ r.json = ToJson(sendError("Invalid updateToken"))

\* the request of p has passed the existence check and is about to have
\* its token checked
AtTokenCheck(p) == proc[p].pc \in {"put_validate", "delete_validate"}

\* C33: in a sequential run a PUT or DELETE with a well-formed id and
\* token is answered "not found" exactly when no record of the id is
\* stored, and "invalid token" exactly when the record is stored with
\* another token: the handler looks for the record first, so a request
\* that gets as far as the token check names a stored record, and the
\* two answers tell a caller without the token whether the id exists.
C33_ExistenceBeforeToken ==
  /\ [](/\ NotFoundResp(resp) => ~Live(TargetOf(resp).v)
        /\ InvalidTokenResp(resp) =>
             /\ Live(TargetOf(resp).v)
             /\ Get(findById(kv, TargetOf(resp).v), "updateToken") # Get(resp.query, "updateToken")
        /\ \A p \in Procs : AtTokenCheck(p) => Live(TargetOf(RequestOf(p)).v))
  /\ [][\A p \in Procs :
          (AtTokenCheck(p) /\ proc'[p] # proc[p] /\ failures' = failures) =>
            ((resp'.proc = p /\ InvalidTokenResp(resp')) <=>
               Get(findById(kv, TargetOf(RequestOf(p)).v), "updateToken")
                 # Get(proc[p].query, "updateToken"))]_vars

\* a caller is told that a record that was deleted does not exist
C33_Witness ==
  /\ sequential
  /\ NotFoundResp(resp)
  /\ TargetOf(resp).v \in deleted

\* ------------------------------------------------------------------- C34
\* the id the request of p creates, updates or deletes: a request that
\* arrives can only create, and the id it would create is the next uuid
ActingId(p) ==
  IF proc[p].pc = "new" THEN UUID(nextUuid)
  ELSE CASE proc[p].method = "POST" -> Get(proc[p].metadata, "id").v
         [] proc[p].method = "PUT" -> Get(proc[p].body, "id").v
         [] proc[p].method = "DELETE" -> Get(proc[p].query, "id").v
         [] OTHER -> "none"

\* the bucket of the pair the record i was created with
BucketOf(i) ==
  LET r == CHOOSE c \in created : c.id = i
  IN getRSSIndexKey(Get(r.input, "podcastGuid"), Get(r.input, "rssItemGuid"))

\* C34: a step of the request of p leaves the stored record of every id
\* other than the one it acts on as it is, and changes the membership of
\* that id only, in the bucket of the pair the record was created with;
\* the step of a create that writes the record adds one key and touches
\* no bucket, and its index step touches no record.  A step of no
\* request changes neither records nor buckets.
C34_MutationFrame ==
  [][/\ \A p \in Procs :
          proc'[p] # proc[p] =>
            LET i == ActingId(p)
            IN /\ \A j \in AllIds \ {i} : findById(kv', j) = findById(kv, j)
               /\ \A k \in DOMAIN sets \cup DOMAIN sets' : \A j \in AllIds :
                    ((j \in RedisSMembers(sets', k)) # (j \in RedisSMembers(sets, k))) =>
                      /\ j = i
                      /\ \E c \in created : c.id = i
                      /\ k = BucketOf(i)
               /\ proc[p].pc = "new" =>
                    /\ sets' = sets
                    /\ Cardinality(DOMAIN kv') <= Cardinality(DOMAIN kv) + 1
               /\ proc[p].pc = "create_sAdd" => kv' = kv
     /\ (\A p \in Procs : proc'[p] = proc[p]) => (kv' = kv /\ sets' = sets)]_vars

\* a record was deleted while another record of the same bucket stays
\* stored and indexed
C34_Witness ==
  \E i \in deleted : \E j \in AllIds \ {i} :
    /\ \E c \in created : c.id = j
    /\ Live(j) /\ InBucket(j)
    /\ BucketOf(i) = BucketOf(j)

\* ------------------------------------------------------------------- C35
\* C35: storage.create leaves every record that was stored when it was
\* called as it was, with its token and its index membership.
C35_NoSilentOverwrite ==
  call.pc # "idle" =>
    \A id \in AllIds :
      findById(call.before.kv, id) # Null =>
        /\ findById(kv, id) = findById(call.before.kv, id)
        /\ \A k \in DOMAIN sets \cup DOMAIN call.before.sets :
             (id \in RedisSMembers(sets, k)) <=> (id \in RedisSMembers(call.before.sets, k))

\* ------------------------------------------------------------------- C36
\* C36: each turn of the loop of storage.findAll that no backend failure
\* ends adds the record stored under the key it fetches, or nothing when
\* the key holds no record any more; the page the handler answers with
\* has one entry for each record gathered and no other entry.
C36_ListNoTombstones ==
  [][\A p \in Procs :
       (proc[p].pc = "findAll_get" /\ proc'[p] # proc[p] /\ failures' = failures) =>
         LET key == Head(proc[p].pending)
             gathered == IF RedisGet(kv, key) # Null
                         THEN Append(proc[p].results, JSONparse(RedisGet(kv, key)))
                         ELSE proc[p].results
         IN /\ \A i \in DOMAIN gathered :
                 /\ gathered[i] # Null
                 /\ Get(gathered[i], "id").t = "string"
            /\ proc'[p].pc = "findAll_get" => proc'[p].results = gathered
            /\ proc'[p].pc = "done" =>
                 /\ resp'.proc = p /\ resp'.status = 200
                 /\ IdsOf(Get(resp'.json, "data").v) = IdsOf(gathered)]_vars

\* a page that leaves out a record deleted after the key scan
C36_Witness ==
  /\ IsList(resp) /\ failures = 0
  /\ PageLen(resp) = 0
  /\ OffsetIn(resp) = 0
  /\ TotalIn(resp) = 1
  /\ deleted # {}

\* ------------------------------------------------------------------- C37
LiveIds == {id \in AllIds : Live(id)}

\* the offsets 0, limit, 2 * limit, ... below the number of live records
OffsetsBelowCount(limit) == {o \in 0..(Cardinality(LiveIds) - 1) : o % limit = 0}

\* C37: with no request in flight and no request that changes the store,
\* pages answered for the offsets 0, limit, 2 * limit, ... below the
\* count hold every live record exactly once between them.
C37_PagesExactAtRest ==
  Quiescent =>
    \A limit \in {pg.limit : pg \in pages} :
      \A f \in [OffsetsBelowCount(limit) -> pages] :
        (\A o \in OffsetsBelowCount(limit) : f[o].limit = limit /\ f[o].offset = o) =>
          /\ UNION {{f[o].ids[i] : i \in DOMAIN f[o].ids} : o \in OffsetsBelowCount(limit)}
               = {Str(id) : id \in LiveIds}
          /\ \A o1, o2 \in OffsetsBelowCount(limit) :
               \A i \in DOMAIN f[o1].ids : \A j \in DOMAIN f[o2].ids :
                 f[o1].ids[i] = f[o2].ids[j] => (o1 = o2 /\ i = j)

\* ------------------------------------------------------------------- C38
OptionalStrings == {"signature", "podcastGuid", "rssItemGuid"}

\* what the validation contract asks of the body of a create request
Acceptable(body) ==
  /\ "type" \in DOMAIN body.v /\ body.v["type"] \in {Str(t) : t \in PaymentType}
  /\ "metadata" \in DOMAIN body.v /\ body.v["metadata"].t = "object"
  /\ \A k \in OptionalStrings : k \in DOMAIN body.v => body.v[k].t = "string"

\* C38: the validator accepts a body exactly when its type is one of the
\* enum values, its metadata is an object that is neither null nor an
\* array, and signature, podcastGuid and rssItemGuid are each absent or a
\* string; every other body gets valid: false and an error message.
C38_AcceptsExactly ==
  validation.stage = "output" =>
    IF Acceptable(validation.body)
      THEN validation.result = [valid |-> TRUE]
      ELSE /\ validation.result.valid = FALSE
           /\ validation.result.error # ""

\* accepted with a signature and without a podcastGuid
C38_Witness ==
  /\ validation.stage = "output"
  /\ validation.result = [valid |-> TRUE]
  /\ "signature" \in DOMAIN validation.body.v
  /\ "podcastGuid" \notin DOMAIN validation.body.v

\* ------------------------------------------------------------------- C39
\* the steps the handler of p has left at most: one for each backend call
\* of its storage operations, and one for the response of a PUT
CallsLeft(p) ==
  CASE proc[p].pc = "create_sAdd" -> 1
    [] proc[p].pc = "put_validate" -> 4
    [] proc[p].pc = "update_findById" -> 3
    [] proc[p].pc = "update_set" -> 2
    [] proc[p].pc = "put_respond" -> 1
    [] proc[p].pc = "delete_validate" -> 4
    [] proc[p].pc = "delete_findById" -> 3
    [] proc[p].pc = "delete_del" -> 2
    [] proc[p].pc = "delete_sRem" -> 1
    [] proc[p].pc = "findByRSSItem_get" -> Len(proc[p].pending)
    [] proc[p].pc = "getTotalCount" -> 1 + Len(proc[p].pending)
    [] proc[p].pc = "findAll_get" -> Len(proc[p].pending)
    [] OTHER -> 0

\* the calls a handler has left when its first backend call has returned:
\* the bucket size for a find, the limit and the count for a list
CallsAtStart(p) ==
  CASE proc[p].method' = "FIND" ->
         Cardinality(RedisSMembers(sets, getRSSIndexKey(Get(proc[p].query', "podcastGuid"),
                                                        Get(proc[p].query', "rssItemGuid"))))
    [] proc[p].method' = "LIST" -> 1 + limitOf(proc[p].query').v
    [] OTHER -> 4

\* a step leaves the handlers of the other requests where they are, and
\* brings the handler that takes it nearer to its end
Progress ==
  \A p \in Procs :
    IF InFlight(p)
      THEN proc'[p] = proc[p] \/ ~InFlight(p)' \/ CallsLeft(p)' < CallsLeft(p)
      ELSE InFlight(p)' => CallsLeft(p)' <= CallsAtStart(p)

\* a handler in flight can take its next step whatever the others do
NoWaiting == \A p \in Procs : (InFlight(p) /\ resp = NoResp) => ENABLED Resumes(p)

\* C39: when every backend call returns, every storage operation ends
\* after finitely many backend calls, at most the bucket size for
\* findByRSSItem and the limit for findAll, and waits for no other request.
C39_OperationsTerminate ==
  /\ \A p \in Procs : InFlight(p) ~> ~InFlight(p)
  /\ [][Progress]_vars
  /\ []NoWaiting

\* a find has gone through its loop and answered while another request
\* was in flight
C39_Witness ==
  /\ resp.method = "FIND"
  /\ resp.status = 200 /\ resp.ret = "none"
  /\ Elements(resp) # {}
  /\ \E q \in Procs : q # resp.proc /\ InFlight(q)

====
